---- MODULE Spec2Model ----
(***************************************************************************)
(* Model of the colorist colour-management core: clTransformCreate,        *)
(* clTransformPrepare, clTransformRun, the task split of                   *)
(* doMultithreadedTransform and the pixel converters of clCCMMTransform    *)
(* (lib/src/transform.c).                                                  *)
(***************************************************************************)
EXTENDS Integers, Sequences, FiniteSets, TLC

(***************************************************************************)
(* IEEE-754 binary32 arithmetic.  A float is [s, m, e] and stands for      *)
(* (-1)^s * m * 2^e with 2^23 <= m < 2^24, or m = 0 for zero.  Every       *)
(* operation rounds to nearest, ties to even, as the C float operators do. *)
(* Infinities, NaNs and subnormals do not occur for the values modelled.   *)
(***************************************************************************)
F32Zero == [s |-> 0, m |-> 0, e |-> 0]

\* a local variable of the code: Body is evaluated with its value v
With(v, Body(_)) == Body(v)

\* number of significant bits of t, 0 < t < 2^30
F32Bits(t) == CHOOSE n \in 1..30 : 2^(n-1) <= t /\ t < 2^n

\* the float nearest to (-1)^s * t * 2^e, 0 <= t < 2^30
F32Round(s, t, e) ==
    IF t = 0 THEN F32Zero
    ELSE LET n == F32Bits(t) IN
         IF n <= 24 THEN [s |-> s, m |-> t * 2^(24-n), e |-> e - (24-n)]
         ELSE LET k    == n - 24
                  q    == t \div 2^k
                  r    == t % 2^k
                  half == 2^(k-1)
                  up   == (r > half) \/ (r = half /\ q % 2 = 1)
                  q2   == IF up THEN q + 1 ELSE q
              IN IF q2 = 2^24 THEN [s |-> s, m |-> 2^23, e |-> e + k + 1]
                 ELSE [s |-> s, m |-> q2, e |-> e + k]

\* (float)x for an int x, |x| < 2^24
F32FromInt(x) == IF x < 0 THEN F32Round(1, -x, 0) ELSE F32Round(0, x, 0)

F32One == [s |-> 0, m |-> 8388608, e |-> -23]

F32Neg(a) == IF a.m = 0 THEN a ELSE [a EXCEPT !.s = 1 - a.s]

\* a * b
F32Mul(a, b) ==
    IF a.m = 0 \/ b.m = 0 THEN F32Zero
    ELSE LET ah  == a.m \div 4096
             al  == a.m % 4096
             bh  == b.m \div 4096
             bl  == b.m % 4096
             mid == ah * bl + al * bh
             low == (mid % 4096) * 4096 + al * bl
             H   == ah * bh + mid \div 4096 + low \div 16777216
             L   == low % 16777216
             T   == H * 4 + L \div 4194304
             st  == IF L % 4194304 = 0 THEN 0 ELSE 1
         IN F32Round((a.s + b.s) % 2, T * 2 + st, a.e + b.e + 21)

\* long division: n further quotient bits of r / d appended to acc
RECURSIVE F32DivBits(_, _, _, _)
F32DivBits(r, d, n, acc) ==
    IF n = 0 THEN <<acc, r>>
    ELSE LET r2 == 2 * r IN
         IF r2 >= d THEN F32DivBits(r2 - d, d, n - 1, 2 * acc + 1)
         ELSE F32DivBits(r2, d, n - 1, 2 * acc)

\* a / b, b # 0
F32Div(a, b) ==
    IF a.m = 0 THEN F32Zero
    ELSE LET qr == F32DivBits(a.m % b.m, b.m, 26, a.m \div b.m)
             st == IF qr[2] = 0 THEN 0 ELSE 1
         IN F32Round((a.s + b.s) % 2, qr[1] * 2 + st, a.e - b.e - 27)

\* a + b
F32Add(a, b) ==
    IF a.m = 0 THEN b
    ELSE IF b.m = 0 THEN a
    ELSE LET hi == IF a.e > b.e \/ (a.e = b.e /\ a.m >= b.m) THEN a ELSE b
             lo == IF a.e > b.e \/ (a.e = b.e /\ a.m >= b.m) THEN b ELSE a
             d  == hi.e - lo.e
             A  == hi.m * 8
             B  == IF d > 27 THEN 1
                   ELSE LET q == (lo.m * 8) \div 2^d
                            r == (lo.m * 8) % 2^d
                        IN IF r = 0 THEN q ELSE (q - (q % 2)) + 1
             S  == IF hi.s = lo.s THEN A + B ELSE A - B
         IN F32Round(hi.s, S, hi.e - 3)

\* a < b
F32Less(a, b) ==
    LET mag(x, y) == x.m # 0 /\ (y.m = 0 \/ x.e > y.e \/ (x.e = y.e /\ x.m > y.m))
        \* mag(x, y): |x| > |y|
    IN IF a.m = 0 /\ b.m = 0 THEN FALSE
       ELSE IF a.s = 1 /\ a.m # 0
            THEN IF b.s = 1 /\ b.m # 0 THEN mag(a, b) ELSE TRUE
            ELSE IF b.s = 1 /\ b.m # 0 THEN FALSE ELSE mag(b, a)

\* roundf(a) as an integer: nearest, ties away from zero; |a| < 2^24
F32RoundToInt(a) ==
    IF a.m = 0 THEN 0
    ELSE LET mag == IF a.e >= 0 THEN a.m * 2^a.e
                    ELSE IF a.e < -24 THEN 0
                    ELSE LET q == a.m \div 2^(-a.e)
                             r == a.m % 2^(-a.e)
                         IN IF 2 * r >= 2^(-a.e) THEN q + 1 ELSE q
         IN IF a.s = 1 THEN -mag ELSE mag

\* the integer part of a (C float-to-integer conversion truncates); |a| < 2^24
F32TruncToInt(a) ==
    IF a.m = 0 THEN 0
    ELSE LET mag == IF a.e >= 0 THEN a.m * 2^a.e
                    ELSE IF a.e < -24 THEN 0
                    ELSE a.m \div 2^(-a.e)
         IN IF a.s = 1 THEN -mag ELSE mag


\* sqrtf(a) for a >= 0: digit-by-digit square root, correctly rounded
RECURSIVE F32SqrtBits(_, _, _, _)
F32SqrtBits(rem, root, rest, n) ==
    \* rest: the radicand bits still to bring down, two per step, as a
    \* sequence of 2-bit digits, most significant first
    IF n > Len(rest) THEN <<root, rem>>
    ELSE LET r2   == rem * 4 + rest[n]
             cand == root * 4 + 1
         IN IF r2 >= cand THEN F32SqrtBits(r2 - cand, root * 2 + 1, rest, n + 1)
            ELSE F32SqrtBits(r2, root * 2, rest, n + 1)

F32Sqrt(a) ==
    IF a.m = 0 THEN F32Zero
    ELSE LET odd    == (a.e % 2) # 0
             mm     == IF odd THEN a.m * 2 ELSE a.m       \* < 2^25
             ee     == IF odd THEN a.e - 1 ELSE a.e
             \* radicand mm * 2^26: 13 digits of mm, then 13 zero digits
             digits == [k \in 1..26 |->
                          IF k <= 13 THEN (mm \div 4^(13 - k)) % 4 ELSE 0]
             rr     == F32SqrtBits(0, 0, digits, 1)
             st     == IF rr[2] = 0 THEN 0 ELSE 1
         IN F32Round(0, rr[1] * 2 + st, (ee - 26) \div 2 - 1)

F32Two  == [s |-> 0, m |-> 8388608, e |-> -22]
F32Half == [s |-> 0, m |-> 8388608, e |-> -24]

\* powf(x, y) for x >= 0 and the exponents the modelled profiles produce
\* (y in {1, 2, 1/2}), taken as the correctly rounded result
F32Pow(x, y) ==
    IF y = F32One THEN x
    ELSE IF y = F32Two THEN F32Mul(x, x)
    ELSE IF y = F32Half THEN F32Sqrt(x)
    ELSE F32One   \* y = 0: powf(x, 0) = 1

(***************************************************************************)
(* gb_math: a gbVec3 is <<x, y, z>>, a gbMat3 is <<col0, col1, col2>>.     *)
(***************************************************************************)
Vec3Dot(a, b) == F32Add(F32Add(F32Mul(a[1], b[1]), F32Mul(a[2], b[2])), F32Mul(a[3], b[3]))

Mat3Row(m, r) == <<m[1][r], m[2][r], m[3][r]>>

gb_mat3_identity ==
    <<<<F32One, F32Zero, F32Zero>>, <<F32Zero, F32One, F32Zero>>, <<F32Zero, F32Zero, F32One>>>>

gb_mat3_transpose(m) == <<Mat3Row(m, 1), Mat3Row(m, 2), Mat3Row(m, 3)>>

\* out.x = m[0][0]*v.x + m[0][1]*v.y + m[0][2]*v.z, ...: gb_math multiplies the
\* vector by the stored columns, one dot product per column
gb_mat3_mul_vec3(m, v) == <<Vec3Dot(m[1], v), Vec3Dot(m[2], v), Vec3Dot(m[3], v)>>

\* out[j][i] = m1[0][i]*m2[j][0] + m1[1][i]*m2[j][1] + m1[2][i]*m2[j][2]
gb_mat3_mul(m1, m2) == [j \in 1..3 |-> [i \in 1..3 |-> Vec3Dot(Mat3Row(m1, i), m2[j])]]

F32Sub(a, b) == F32Add(a, F32Neg(b))

\* 2x2 minor a*d - b*c
Minor2(a, b, c, d) == F32Sub(F32Mul(a, d), F32Mul(b, c))

gb_mat3_determinate(m) ==
    F32Add(F32Sub(F32Mul(m[1][1], Minor2(m[2][2], m[3][2], m[2][3], m[3][3])),
                  F32Mul(m[2][1], Minor2(m[1][2], m[3][2], m[1][3], m[3][3]))),
           F32Mul(m[3][1], Minor2(m[1][2], m[2][2], m[1][3], m[2][3])))

gb_mat3_inverse(m) ==
    LET \* cof(c, r): cofactor of the entry in column c, row r
        n(k) == IF k > 3 THEN k - 3 ELSE k
        cof(c, r) == Minor2(m[n(c+1)][n(r+1)], m[n(c+2)][n(r+1)],
                            m[n(c+1)][n(r+2)], m[n(c+2)][n(r+2)])
    \* o[c][r] is the cofactor of i[c][r] over the determinant (gb_math does
    \* not transpose the cofactors)
    IN With(F32Div(F32One, gb_mat3_determinate(m)), LAMBDA ood :
          [c \in 1..3 |-> [r \in 1..3 |-> F32Mul(cof(c, r), ood)]])


(***************************************************************************)
(* Profiles.  A profile is read-only data here: what clProfileQuery,       *)
(* clProfileHasPQSignature, clProfileUsesCCMM and clProfileMatches report  *)
(* about it.  "NULL" is the null profile pointer.                          *)
(***************************************************************************)
F32Ratio(a, b) == F32Div(F32FromInt(a), F32FromInt(b))

\* the positive float m * 2^e
F32Lit(m, e) == [s |-> 0, m |-> m, e |-> e]

\* <<Rx, Ry, Gx, Gy, Bx, By, Wx, Wy>> as floats:
\* 0.64 0.33 0.30 0.60 0.15 0.06 0.3127 0.3290
PrimariesBT709 ==
    <<F32Lit(10737418, -24), F32Lit(11072963, -25), F32Lit(10066330, -25),
      F32Lit(10066330, -24), F32Lit(10066330, -26), F32Lit(16106127, -28),
      F32Lit(10492471, -25), F32Lit(11039408, -25)>>

\* 0.708 0.292 0.170 0.797 0.131 0.046 0.3127 0.3290
PrimariesBT2020 ==
    <<F32Lit(11878269, -24), F32Lit(9797894, -25), F32Lit(11408507, -26),
      F32Lit(13371441, -24), F32Lit(8791261, -26), F32Lit(12348031, -28),
      F32Lit(10492471, -25), F32Lit(11039408, -25)>>

\* bytes: identity of the packed ICC bytes; ccmm: the profile's ccmm flag;
\* pq: the profile carries the PQ signature; queryable: clProfileQuery succeeds
ProfileTable ==
    [ bt709    |-> [bytes |-> 1, ccmm |-> TRUE,  pq |-> FALSE, queryable |-> TRUE,
                    primaries |-> PrimariesBT709,  gamma |-> F32One],
      bt709b   |-> [bytes |-> 1, ccmm |-> TRUE,  pq |-> FALSE, queryable |-> TRUE,
                    primaries |-> PrimariesBT709,  gamma |-> F32One],
      bt2020   |-> [bytes |-> 2, ccmm |-> TRUE,  pq |-> FALSE, queryable |-> TRUE,
                    primaries |-> PrimariesBT2020, gamma |-> F32One],
      bt2020g2 |-> [bytes |-> 3, ccmm |-> TRUE,  pq |-> FALSE, queryable |-> TRUE,
                    primaries |-> PrimariesBT2020, gamma |-> F32Two],
      broken   |-> [bytes |-> 4, ccmm |-> TRUE,  pq |-> FALSE, queryable |-> FALSE,
                    primaries |-> PrimariesBT709,  gamma |-> F32Zero],
      lut      |-> [bytes |-> 5, ccmm |-> FALSE, pq |-> FALSE, queryable |-> TRUE,
                    primaries |-> PrimariesBT709,  gamma |-> F32One],
      pq2020   |-> [bytes |-> 6, ccmm |-> TRUE,  pq |-> TRUE,  queryable |-> TRUE,
                    primaries |-> PrimariesBT2020, gamma |-> F32One] ]

ProfileNames == DOMAIN ProfileTable

clProfileHasPQSignature(profile) == ProfileTable[profile].pq

clProfileQuery(profile) == ProfileTable[profile].queryable

clProfileUsesCCMM(profile) == IF profile = "NULL" THEN TRUE ELSE ProfileTable[profile].ccmm

\* the same handle, or the same packed bytes
clProfileMatches(p1, p2) ==
    IF p1 = p2 THEN TRUE
    ELSE IF p1 = "NULL" \/ p2 = "NULL" THEN FALSE
    ELSE ProfileTable[p1].bytes = ProfileTable[p2].bytes

(***************************************************************************)
(* Transform preparation.                                                  *)
(***************************************************************************)
CL_XTF_NONE  == "NONE"
CL_XTF_GAMMA == "GAMMA"
CL_XTF_PQ    == "PQ"

\* what an uninitialised gbMat3 local holds: g in every entry
GarbageMat(g) == [c \in 1..3 |-> [r \in 1..3 |-> g]]

\* deriveXYZMatrixAndXTF(C, profile, &toXYZ, &xtf, &gamma): the out-parameters
\* start as (toXYZ0, xtf0, gamma0) and are returned as they are left
deriveXYZMatrixAndXTF(profile, toXYZ0, xtf0, gamma0) ==
    IF profile # "NULL" THEN
        LET hasPQ == clProfileHasPQSignature(profile)
            pr    == ProfileTable[profile].primaries
            col(x, y) == <<x, y, F32Sub(F32Sub(F32One, x), y)>>
        IN IF ~(hasPQ \/ clProfileQuery(profile))
           THEN [ok |-> FALSE, toXYZ |-> toXYZ0, xtf |-> xtf0, gamma |-> gamma0]
           ELSE
             With(<<col(pr[1], pr[2]), col(pr[3], pr[4]), col(pr[5], pr[6])>>, LAMBDA P :
             With(col(pr[7], pr[8]), LAMBDA W :
             With(gb_mat3_mul_vec3(gb_mat3_inverse(P), W), LAMBDA U :
             With(<< <<F32Div(U[1], W[2]), F32Zero, F32Zero>>,
                     <<F32Zero, F32Div(U[2], W[2]), F32Zero>>,
                     <<F32Zero, F32Zero, F32Div(U[3], W[2])>> >>, LAMBDA D :
                [ok    |-> TRUE,
                 toXYZ |-> gb_mat3_transpose(gb_mat3_mul(P, D)),
                 xtf   |-> IF hasPQ THEN CL_XTF_PQ ELSE CL_XTF_GAMMA,
                 gamma |-> IF hasPQ THEN F32Zero ELSE ProfileTable[profile].gamma]))))
    ELSE [ok |-> TRUE, toXYZ |-> gb_mat3_identity, xtf |-> CL_XTF_NONE, gamma |-> F32Zero]

\* the fields clTransformPrepare derives, written into t
PrepareFields(t, g) ==
        With(deriveXYZMatrixAndXTF(t.srcProfile, GarbageMat(g), t.srcEOTF, t.srcGamma), LAMBDA s :
        With(deriveXYZMatrixAndXTF(t.dstProfile, GarbageMat(g), t.dstOETF, t.dstInvGamma), LAMBDA d :
            [t EXCEPT !.srcEOTF     = s.xtf,
                      !.srcGamma    = s.gamma,
                      !.dstOETF     = d.xtf,
                      !.dstInvGamma = IF (d.xtf = CL_XTF_GAMMA) /\ (d.gamma # F32Zero)
                                      THEN F32Div(F32One, d.gamma) ELSE d.gamma,
                      \* an underived matrix is uninitialised memory, and so
                      \* is everything computed from it
                      !.matSrcToDst = IF s.ok /\ d.ok
                                      THEN gb_mat3_mul(s.toXYZ,
                                               gb_mat3_transpose(gb_mat3_inverse(d.toXYZ)))
                                      ELSE GarbageMat(g),
                      !.ccmmReady   = TRUE]))

\* clTransformPrepare with the inversion of dstInvGamma outside the ccmmReady
\* guard: a prepared transform has it inverted again
clTransformPrepare_Reinvert(t, g) ==
    IF ~t.ccmmReady THEN PrepareFields(t, g)
    ELSE [t EXCEPT !.dstInvGamma = IF (t.dstOETF = CL_XTF_GAMMA) /\ (@ # F32Zero)
                                   THEN F32Div(F32One, @) ELSE @]

\* clTransformPrepare(C, transform); g is what uninitialised memory holds
clTransformPrepare(t, g) ==
    IF ~t.ccmmReady THEN PrepareFields(t, g) ELSE t

\* clTransformCreate(C, srcProfile, srcFormat, srcDepth, dstProfile, dstFormat, dstDepth);
\* the fields it does not assign are the zeroes of clAllocateStruct
clTransformCreate(srcProfile, srcFormat, srcDepth, dstProfile, dstFormat, dstDepth) ==
    [srcProfile |-> srcProfile, dstProfile |-> dstProfile,
     srcFormat |-> srcFormat, dstFormat |-> dstFormat,
     srcDepth |-> srcDepth, dstDepth |-> dstDepth,
     ccmmReady |-> FALSE, xyzProfile |-> "NULL", hTransform |-> "NULL",
     srcEOTF |-> CL_XTF_NONE, srcGamma |-> F32Zero,
     dstOETF |-> CL_XTF_NONE, dstInvGamma |-> F32Zero,
     matSrcToDst |-> GarbageMat(F32Zero)]

(***************************************************************************)
(* Pixel formats.                                                          *)
(***************************************************************************)
CL_XF_XYZ  == "XYZ"
CL_XF_RGB  == "RGB"
CL_XF_RGBA == "RGBA"

clTransformFormatIsFloat(format, depth) ==
    IF format = CL_XF_XYZ THEN TRUE ELSE depth = 32

clTransformFormatToPixelBytes(format, depth) ==
    IF format = CL_XF_XYZ THEN 4 * 3
    ELSE IF format = CL_XF_RGB
         THEN (IF depth = 32 THEN 4 * 3 ELSE IF depth > 8 THEN 2 * 3 ELSE 1 * 3)
         ELSE (IF depth = 32 THEN 4 * 4 ELSE IF depth > 8 THEN 2 * 4 ELSE 1 * 4)

USES_UINT8_T(v)  == v = 8
USES_UINT16_T(v) == (v >= 9) /\ (v <= 16)

SRC_8_HAS_ALPHA(srcPixelBytes)     == srcPixelBytes > 3
SRC_16_HAS_ALPHA(srcPixelBytes)    == srcPixelBytes > 7
SRC_FLOAT_HAS_ALPHA(srcPixelBytes) == srcPixelBytes > 15
DST_8_HAS_ALPHA(dstPixelBytes)     == dstPixelBytes > 3
DST_16_HAS_ALPHA(dstPixelBytes)    == dstPixelBytes > 7
DST_FLOAT_HAS_ALPHA(dstPixelBytes) == dstPixelBytes > 15


(***************************************************************************)
(* Pixel buffers.  A buffer is a sequence of elements (uint8_t, uint16_t   *)
(* or float, by its format); a pointer into it is an element offset.  Each *)
(* converter below is the body of its loop for pixel i and yields          *)
(* [mem |-> the destination array after the iteration,                     *)
(*  wr  |-> the destination elements written,                              *)
(*  rd  |-> the source elements read].                                     *)
(* ub says how the build resolves undefined behaviour: ub.garbage is what  *)
(* an uninitialised float holds, ub.cast how an out-of-range float         *)
(* converts to an unsigned integer ("wrap" or "sat").                      *)
(***************************************************************************)
\* dst with vals stored at elements base+1 .. base+Len(vals); rd is the set
\* of source elements the iteration read
Store(dst, base, vals, rd) ==
    [mem |-> [k \in DOMAIN dst |->
                 IF k > base /\ k <= base + Len(vals) THEN vals[k - base] ELSE dst[k]],
     wr  |-> (base + 1)..(base + Len(vals)),
     rd  |-> rd]

\* the channels an iteration stores: rgb, and when the destination has an
\* alpha channel the source's alpha a, or opaque when the source has none
PixelVals(dstAlpha, srcAlpha, rgb, a, opaque) ==
    IF dstAlpha
    THEN (IF srcAlpha THEN <<rgb[1], rgb[2], rgb[3], a>>
          ELSE <<rgb[1], rgb[2], rgb[3], opaque>>)
    ELSE <<rgb[1], rgb[2], rgb[3]>>

\* the source elements an iteration reads, from element sp+1 on
PixelReads(sp, alpha) == IF alpha THEN (sp + 1)..(sp + 4) ELSE (sp + 1)..(sp + 3)

\* (uint8_t)v, (uint16_t)v for an integral v
CastU(v, bits, ub) ==
    IF v >= 0 /\ v < 2^bits THEN v
    ELSE IF ub.cast = "wrap" THEN v % 2^bits
    ELSE IF v < 0 THEN 0 ELSE 2^bits - 1

\* clPixelMathRoundf: round to nearest, ties away from zero
clPixelMathRoundf(a) == F32RoundToInt(a)

\* (x >= 0.0f) ? x : 0.0f
ClampNeg(x) == IF F32Less(x, F32Zero) THEN F32Zero ELSE x

Uninit4(ub) == <<ub.garbage, ub.garbage, ub.garbage, ub.garbage>>

F32_255 == [s |-> 0, m |-> 16711680, e |-> -16]

\* one of the two switches of transformFloatToFloat over a transfer function
ApplyXTF(v, xtf, gamma) ==
    IF xtf = CL_XTF_NONE THEN v
    ELSE [c \in 1..3 |-> F32Pow(ClampNeg(v[c]), gamma)]

transformFloatToFloat(t, src, sOff, srcPixelBytes, dst, dOff, dstPixelBytes, i) ==
    LET sp  == sOff + (i * srcPixelBytes) \div 4
        dp  == dOff + (i * dstPixelBytes) \div 4
        lin == ApplyXTF(<<src[sp + 1], src[sp + 2], src[sp + 3]>>, t.srcEOTF, t.srcGamma)
        out == ApplyXTF(gb_mat3_mul_vec3(t.matSrcToDst, lin), t.dstOETF, t.dstInvGamma)
    IN Store(dst, dp,
             PixelVals(DST_FLOAT_HAS_ALPHA(dstPixelBytes), SRC_FLOAT_HAS_ALPHA(srcPixelBytes),
                       out, src[sp + 4], F32One),
             PixelReads(sp, DST_FLOAT_HAS_ALPHA(dstPixelBytes) /\ SRC_FLOAT_HAS_ALPHA(srcPixelBytes)))

\* (uintN_t)clPixelMathRoundf(v * rescale)
ScaleRound(v, rescale, bits, ub) == CastU(clPixelMathRoundf(F32Mul(v, rescale)), bits, ub)

transformFloatToRGB8(t, src, sOff, srcPixelBytes, dst, dOff, dstPixelBytes, i, ub) ==
    LET sp == sOff + (i * srcPixelBytes) \div 4
        dp == dOff + i * dstPixelBytes
    IN \* tmpPixel is uninitialised; the inner call is handed dstPixelBytes
       With(transformFloatToFloat(t, src, sp, srcPixelBytes, Uninit4(ub), 0, dstPixelBytes, 0),
            LAMBDA k :
               Store(dst, dp,
                     PixelVals(DST_8_HAS_ALPHA(dstPixelBytes), SRC_FLOAT_HAS_ALPHA(srcPixelBytes),
                               [c \in 1..3 |-> ScaleRound(k.mem[c], F32_255, 8, ub)],
                               ScaleRound(k.mem[4], F32_255, 8, ub), 255),
                     k.rd))

transformFloatToRGB16(t, src, sOff, srcPixelBytes, dst, dOff, dstPixelBytes, dstDepth, i, ub) ==
    LET dstMaxChannel == 2^dstDepth - 1
        sp == sOff + (i * srcPixelBytes) \div 4
        dp == dOff + (i * dstPixelBytes) \div 2
    IN With(F32FromInt(dstMaxChannel), LAMBDA dstRescale :
       With(transformFloatToFloat(t, src, sp, srcPixelBytes, Uninit4(ub), 0, dstPixelBytes, 0),
            LAMBDA k :
               Store(dst, dp,
                     PixelVals(DST_16_HAS_ALPHA(dstPixelBytes), SRC_FLOAT_HAS_ALPHA(srcPixelBytes),
                               [c \in 1..3 |-> ScaleRound(k.mem[c], dstRescale, 16, ub)],
                               ScaleRound(k.mem[4], dstRescale, 16, ub), dstMaxChannel),
                     k.rd)))

\* (float)srcPixel[c] * srcRescale for the channels at src[sp+1 ..]
RescaleToFloat(src, sp, n, srcRescale) ==
    [c \in 1..n |-> F32Mul(F32FromInt(src[sp + c]), srcRescale)]

\* tmpPixel of the integer-to-float transforms: three rescaled channels, then
\* the rescaled alpha, 1.0f, or (no alpha in the destination) nothing stored
TmpPixel(src, sp, srcRescale, dstAlpha, srcAlpha, ub) ==
    IF dstAlpha
    THEN (IF srcAlpha THEN RescaleToFloat(src, sp, 4, srcRescale)
          ELSE RescaleToFloat(src, sp, 3, srcRescale) \o <<F32One>>)
    ELSE RescaleToFloat(src, sp, 3, srcRescale) \o <<ub.garbage>>

transformRGB8ToFloat(t, src, sOff, srcPixelBytes, dst, dOff, dstPixelBytes, i, ub) ==
    LET sp    == sOff + i * srcPixelBytes
        alpha == DST_FLOAT_HAS_ALPHA(dstPixelBytes)
        tmpPixel == TmpPixel(src, sp, F32Div(F32One, F32_255), alpha,
                             SRC_8_HAS_ALPHA(srcPixelBytes), ub)
    IN \* the call passes dstPixels, the start of the destination range
       [transformFloatToFloat(t, tmpPixel, 0, dstPixelBytes, dst, dOff, dstPixelBytes, 0)
          EXCEPT !.rd = PixelReads(sp, alpha /\ SRC_8_HAS_ALPHA(srcPixelBytes))]

transformRGB16ToFloat(t, src, sOff, srcPixelBytes, srcDepth, dst, dOff, dstPixelBytes, i, ub) ==
    LET sp    == sOff + (i * srcPixelBytes) \div 2
        alpha == DST_FLOAT_HAS_ALPHA(dstPixelBytes)
        tmpPixel == TmpPixel(src, sp, F32Div(F32One, F32FromInt(2^srcDepth - 1)), alpha,
                             SRC_16_HAS_ALPHA(srcPixelBytes), ub)
    IN \* the call passes dstPixels, the start of the destination range
       [transformFloatToFloat(t, tmpPixel, 0, dstPixelBytes, dst, dOff, dstPixelBytes, 0)
          EXCEPT !.rd = PixelReads(sp, alpha /\ SRC_16_HAS_ALPHA(srcPixelBytes))]

\* the part the four integer-to-integer transforms share: rescale the source
\* pixel to tmpSrc, run transformFloatToFloat into tmpDst, rescale to the
\* destination depth
TransformIntToInt(t, src, sp, srcAlpha, srcMax, dst, dp, dstAlpha, dstMax, dstBits, ub) ==
    LET srcRescale  == F32Div(F32One, F32FromInt(srcMax))
        tmpSrc      == IF srcAlpha THEN RescaleToFloat(src, sp, 4, srcRescale)
                       ELSE RescaleToFloat(src, sp, 3, srcRescale) \o <<ub.garbage>>
        tmpSrcBytes == IF srcAlpha THEN 16 ELSE 12
        tmpDstBytes == IF dstAlpha THEN 16 ELSE 12
    IN With(F32FromInt(dstMax), LAMBDA dstRescale :
       With(transformFloatToFloat(t, tmpSrc, 0, tmpSrcBytes, Uninit4(ub), 0, tmpDstBytes, 0),
            LAMBDA k :
               Store(dst, dp,
                     PixelVals(dstAlpha, srcAlpha,
                               [c \in 1..3 |-> ScaleRound(k.mem[c], dstRescale, dstBits, ub)],
                               ScaleRound(k.mem[4], dstRescale, dstBits, ub), dstMax),
                     PixelReads(sp, srcAlpha))))

transformRGB8ToRGB8(t, src, sOff, srcPixelBytes, dst, dOff, dstPixelBytes, i, ub) ==
    TransformIntToInt(t, src, sOff + i * srcPixelBytes, SRC_8_HAS_ALPHA(srcPixelBytes), 255,
                      dst, dOff + i * dstPixelBytes, DST_8_HAS_ALPHA(dstPixelBytes), 255, 8, ub)

transformRGB8ToRGB16(t, src, sOff, srcPixelBytes, dst, dOff, dstPixelBytes, dstDepth, i, ub) ==
    TransformIntToInt(t, src, sOff + i * srcPixelBytes, SRC_8_HAS_ALPHA(srcPixelBytes), 255,
                      dst, dOff + (i * dstPixelBytes) \div 2, DST_16_HAS_ALPHA(dstPixelBytes),
                      2^dstDepth - 1, 16, ub)

transformRGB16ToRGB8(t, src, sOff, srcPixelBytes, srcDepth, dst, dOff, dstPixelBytes, i, ub) ==
    TransformIntToInt(t, src, sOff + (i * srcPixelBytes) \div 2, SRC_16_HAS_ALPHA(srcPixelBytes),
                      2^srcDepth - 1,
                      dst, dOff + i * dstPixelBytes, DST_8_HAS_ALPHA(dstPixelBytes), 255, 8, ub)

transformRGB16ToRGB16(t, src, sOff, srcPixelBytes, srcDepth, dst, dOff, dstPixelBytes, dstDepth, i, ub) ==
    TransformIntToInt(t, src, sOff + (i * srcPixelBytes) \div 2, SRC_16_HAS_ALPHA(srcPixelBytes),
                      2^srcDepth - 1,
                      dst, dOff + (i * dstPixelBytes) \div 2, DST_16_HAS_ALPHA(dstPixelBytes),
                      2^dstDepth - 1, 16, ub)

reformatFloatToFloat(src, sOff, srcPixelBytes, dst, dOff, dstPixelBytes, i) ==
    LET sp == sOff + (i * srcPixelBytes) \div 4
        dp == dOff + (i * dstPixelBytes) \div 4
    IN Store(dst, dp,
             PixelVals(DST_FLOAT_HAS_ALPHA(dstPixelBytes), SRC_FLOAT_HAS_ALPHA(srcPixelBytes),
                       <<src[sp + 1], src[sp + 2], src[sp + 3]>>, src[sp + 4], F32One),
             PixelReads(sp, DST_FLOAT_HAS_ALPHA(dstPixelBytes) /\ SRC_FLOAT_HAS_ALPHA(srcPixelBytes)))

reformatFloatToRGB8(src, sOff, srcPixelBytes, dst, dOff, dstPixelBytes, i, ub) ==
    LET sp == sOff + (i * srcPixelBytes) \div 4
        dp == dOff + i * dstPixelBytes
    IN Store(dst, dp,
             PixelVals(DST_8_HAS_ALPHA(dstPixelBytes), SRC_FLOAT_HAS_ALPHA(srcPixelBytes),
                       [c \in 1..3 |-> ScaleRound(src[sp + c], F32_255, 8, ub)],
                       ScaleRound(src[sp + 4], F32_255, 8, ub), 255),
             PixelReads(sp, DST_8_HAS_ALPHA(dstPixelBytes) /\ SRC_FLOAT_HAS_ALPHA(srcPixelBytes)))

reformatFloatToRGB16(src, sOff, srcPixelBytes, dst, dOff, dstPixelBytes, dstDepth, i, ub) ==
    LET dstMaxChannel == 2^dstDepth - 1
        sp == sOff + (i * srcPixelBytes) \div 4
        dp == dOff + (i * dstPixelBytes) \div 2
    IN With(F32FromInt(dstMaxChannel), LAMBDA dstRescale :
          Store(dst, dp,
                PixelVals(DST_16_HAS_ALPHA(dstPixelBytes), SRC_FLOAT_HAS_ALPHA(srcPixelBytes),
                          [c \in 1..3 |-> ScaleRound(src[sp + c], dstRescale, 16, ub)],
                          ScaleRound(src[sp + 4], dstRescale, 16, ub), dstMaxChannel),
                PixelReads(sp, DST_16_HAS_ALPHA(dstPixelBytes) /\ SRC_FLOAT_HAS_ALPHA(srcPixelBytes))))

reformatRGB8ToFloat(src, sOff, srcPixelBytes, dst, dOff, dstPixelBytes, i) ==
    LET sp == sOff + i * srcPixelBytes
        dp == dOff + (i * dstPixelBytes) \div 4
    IN With(F32Div(F32One, F32_255), LAMBDA srcRescale :
          Store(dst, dp,
                PixelVals(DST_FLOAT_HAS_ALPHA(dstPixelBytes), SRC_8_HAS_ALPHA(srcPixelBytes),
                          RescaleToFloat(src, sp, 3, srcRescale),
                          F32Mul(F32FromInt(src[sp + 4]), srcRescale), F32One),
                PixelReads(sp, DST_FLOAT_HAS_ALPHA(dstPixelBytes) /\ SRC_8_HAS_ALPHA(srcPixelBytes))))

reformatRGB16ToFloat(src, sOff, srcPixelBytes, srcDepth, dst, dOff, dstPixelBytes, i) ==
    LET srcMaxChannel == 2^srcDepth - 1
        sp == sOff + (i * srcPixelBytes) \div 2
        dp == dOff + (i * dstPixelBytes) \div 4
    IN With(F32Div(F32One, F32FromInt(srcMaxChannel)), LAMBDA srcRescale :
          Store(dst, dp,
                PixelVals(DST_FLOAT_HAS_ALPHA(dstPixelBytes), SRC_16_HAS_ALPHA(srcPixelBytes),
                          RescaleToFloat(src, sp, 3, srcRescale),
                          F32Mul(F32FromInt(src[sp + 4]), srcRescale), F32One),
                PixelReads(sp, DST_FLOAT_HAS_ALPHA(dstPixelBytes) /\ SRC_16_HAS_ALPHA(srcPixelBytes))))

\* reformatRGB8ToRGB8 with the alpha channel always set to full opacity
reformatRGB8ToRGB8_OpaqueAlpha(src, sOff, srcPixelBytes, dst, dOff, dstPixelBytes, i) ==
    LET sp == sOff + i * srcPixelBytes
        dp == dOff + i * dstPixelBytes
    IN Store(dst, dp,
             PixelVals(DST_8_HAS_ALPHA(dstPixelBytes), FALSE,
                       <<src[sp + 1], src[sp + 2], src[sp + 3]>>, src[sp + 4], 255),
             PixelReads(sp, FALSE))

reformatRGB8ToRGB8(src, sOff, srcPixelBytes, dst, dOff, dstPixelBytes, i) ==
    LET sp == sOff + i * srcPixelBytes
        dp == dOff + i * dstPixelBytes
    IN Store(dst, dp,
             PixelVals(DST_8_HAS_ALPHA(dstPixelBytes), SRC_8_HAS_ALPHA(srcPixelBytes),
                       <<src[sp + 1], src[sp + 2], src[sp + 3]>>, src[sp + 4], 255),
             PixelReads(sp, DST_8_HAS_ALPHA(dstPixelBytes) /\ SRC_8_HAS_ALPHA(srcPixelBytes)))

\* (uint16_t)((float)v * rescale): the conversion to integer truncates
ScaleTrunc(v, rescale, ub) == CastU(F32TruncToInt(F32Mul(F32FromInt(v), rescale)), 16, ub)

reformatRGB16ToRGB16(src, sOff, srcPixelBytes, srcDepth, dst, dOff, dstPixelBytes, dstDepth, i, ub) ==
    LET srcMaxChannel == 2^srcDepth - 1
        dstMaxChannel == 2^dstDepth - 1
        sp == sOff + (i * srcPixelBytes) \div 2
        dp == dOff + (i * dstPixelBytes) \div 2
    IN With(F32Mul(F32Div(F32One, F32FromInt(srcMaxChannel)), F32FromInt(dstMaxChannel)),
            LAMBDA rescale :
          Store(dst, dp,
                PixelVals(DST_16_HAS_ALPHA(dstPixelBytes), SRC_16_HAS_ALPHA(srcPixelBytes),
                          [c \in 1..3 |-> ScaleTrunc(src[sp + c], rescale, ub)],
                          ScaleTrunc(src[sp + 4], rescale, ub), dstMaxChannel),
                PixelReads(sp, DST_16_HAS_ALPHA(dstPixelBytes) /\ SRC_16_HAS_ALPHA(srcPixelBytes))))

\* reformatRGB8ToRGB16 converting to integer by truncation
reformatRGB8ToRGB16_Truncating(src, sOff, srcPixelBytes, dst, dOff, dstPixelBytes, dstDepth, i, ub) ==
    LET dstMaxChannel == 2^dstDepth - 1
        sp == sOff + i * srcPixelBytes
        dp == dOff + (i * dstPixelBytes) \div 2
    IN With(F32Div(F32FromInt(dstMaxChannel), F32_255), LAMBDA rescale :
          Store(dst, dp,
                PixelVals(DST_16_HAS_ALPHA(dstPixelBytes), SRC_8_HAS_ALPHA(srcPixelBytes),
                          [c \in 1..3 |-> ScaleTrunc(src[sp + c], rescale, ub)],
                          ScaleTrunc(src[sp + 4], rescale, ub), dstMaxChannel),
                PixelReads(sp, DST_16_HAS_ALPHA(dstPixelBytes) /\ SRC_8_HAS_ALPHA(srcPixelBytes))))

reformatRGB8ToRGB16(src, sOff, srcPixelBytes, dst, dOff, dstPixelBytes, dstDepth, i, ub) ==
    LET dstMaxChannel == 2^dstDepth - 1
        sp == sOff + i * srcPixelBytes
        dp == dOff + (i * dstPixelBytes) \div 2
    IN With(F32Div(F32FromInt(dstMaxChannel), F32_255), LAMBDA rescale :
          Store(dst, dp,
                PixelVals(DST_16_HAS_ALPHA(dstPixelBytes), SRC_8_HAS_ALPHA(srcPixelBytes),
                          [c \in 1..3 |-> ScaleRound(F32FromInt(src[sp + c]), rescale, 16, ub)],
                          ScaleRound(F32FromInt(src[sp + 4]), rescale, 16, ub), dstMaxChannel),
                PixelReads(sp, DST_16_HAS_ALPHA(dstPixelBytes) /\ SRC_8_HAS_ALPHA(srcPixelBytes))))

reformatRGB16ToRGB8(src, sOff, srcPixelBytes, srcDepth, dst, dOff, dstPixelBytes, i, ub) ==
    LET srcMaxChannel == 2^srcDepth - 1
        sp == sOff + (i * srcPixelBytes) \div 2
        dp == dOff + i * dstPixelBytes
    IN With(F32Div(F32_255, F32FromInt(srcMaxChannel)), LAMBDA rescale :
          Store(dst, dp,
                PixelVals(DST_8_HAS_ALPHA(dstPixelBytes), SRC_16_HAS_ALPHA(srcPixelBytes),
                          [c \in 1..3 |-> ScaleRound(F32FromInt(src[sp + c]), rescale, 8, ub)],
                          ScaleRound(F32FromInt(src[sp + 4]), rescale, 8, ub), 255),
                PixelReads(sp, DST_8_HAS_ALPHA(dstPixelBytes) /\ SRC_16_HAS_ALPHA(srcPixelBytes))))

\* CCMMKind with every depth above 8 taken as 16-bit packed
CCMMKind_Wide16(t) ==
    LET sf  == clTransformFormatIsFloat(t.srcFormat, t.srcDepth)
        df  == clTransformFormatIsFloat(t.dstFormat, t.dstDepth)
        s8  == USES_UINT8_T(t.srcDepth)
        s16 == t.srcDepth >= 9
        d8  == USES_UINT8_T(t.dstDepth)
        d16 == t.dstDepth >= 9
    IN IF sf /\ df THEN "FloatToFloat"
       ELSE IF sf THEN (IF d8 THEN "FloatToRGB8"
                        ELSE IF d16 THEN "FloatToRGB16" ELSE "FAILURE")
       ELSE IF df THEN (IF s8 THEN "RGB8ToFloat"
                        ELSE IF s16 THEN "RGB16ToFloat" ELSE "FAILURE")
       ELSE IF s8 /\ d8 THEN "RGB8ToRGB8"
       ELSE IF s8 /\ d16 THEN "RGB8ToRGB16"
       ELSE IF s16 /\ d8 THEN "RGB16ToRGB8"
       ELSE IF s16 /\ d16 THEN "RGB16ToRGB16"
       ELSE "FAILURE"

(***************************************************************************)
(* clCCMMTransform: the routine the dispatch selects, and one iteration of *)
(* it.  "FAILURE" is COLORIST_FAILURE: no routine applies.                 *)
(***************************************************************************)
CCMMKind(t) ==
    LET sf  == clTransformFormatIsFloat(t.srcFormat, t.srcDepth)
        df  == clTransformFormatIsFloat(t.dstFormat, t.dstDepth)
        s8  == USES_UINT8_T(t.srcDepth)
        s16 == USES_UINT16_T(t.srcDepth)
        d8  == USES_UINT8_T(t.dstDepth)
        d16 == USES_UINT16_T(t.dstDepth)
    IN IF sf /\ df THEN "FloatToFloat"
       ELSE IF sf THEN (IF d8 THEN "FloatToRGB8"
                        ELSE IF d16 THEN "FloatToRGB16" ELSE "FAILURE")
       ELSE IF df THEN (IF s8 THEN "RGB8ToFloat"
                        ELSE IF s16 THEN "RGB16ToFloat" ELSE "FAILURE")
       ELSE IF s8 /\ d8 THEN "RGB8ToRGB8"
       ELSE IF s8 /\ d16 THEN "RGB8ToRGB16"
       ELSE IF s16 /\ d8 THEN "RGB16ToRGB8"
       ELSE IF s16 /\ d16 THEN "RGB16ToRGB16"
       ELSE "FAILURE"

CCMMRoutine(t) ==
    With(CCMMKind(t), LAMBDA kind :
       [path |-> IF kind = "FAILURE" THEN "FAILURE"
                 ELSE IF clProfileMatches(t.srcProfile, t.dstProfile) THEN "reformat"
                 ELSE "transform",
        kind |-> kind])

\* iteration i of the routine clCCMMTransform(C, transform, srcPixels, dstPixels, n)
\* runs; srcPixels = &src[sOff], dstPixels = &dst[dOff] (element offsets)
clCCMMTransform(t, src, sOff, dst, dOff, i, ub) ==
    LET srcDepth      == t.srcDepth
        dstDepth      == t.dstDepth
        srcPixelBytes == clTransformFormatToPixelBytes(t.srcFormat, srcDepth)
        dstPixelBytes == clTransformFormatToPixelBytes(t.dstFormat, dstDepth)
    IN With(CCMMRoutine(t), LAMBDA r :
       IF r.path = "reformat" THEN
         CASE r.kind = "FloatToFloat" -> reformatFloatToFloat(src, sOff, srcPixelBytes, dst, dOff, dstPixelBytes, i)
           [] r.kind = "FloatToRGB8"  -> reformatFloatToRGB8(src, sOff, srcPixelBytes, dst, dOff, dstPixelBytes, i, ub)
           [] r.kind = "FloatToRGB16" -> reformatFloatToRGB16(src, sOff, srcPixelBytes, dst, dOff, dstPixelBytes, dstDepth, i, ub)
           [] r.kind = "RGB8ToFloat"  -> reformatRGB8ToFloat(src, sOff, srcPixelBytes, dst, dOff, dstPixelBytes, i)
           [] r.kind = "RGB16ToFloat" -> reformatRGB16ToFloat(src, sOff, srcPixelBytes, srcDepth, dst, dOff, dstPixelBytes, i)
           [] r.kind = "RGB8ToRGB8"   -> reformatRGB8ToRGB8(src, sOff, srcPixelBytes, dst, dOff, dstPixelBytes, i)
           [] r.kind = "RGB8ToRGB16"  -> reformatRGB8ToRGB16(src, sOff, srcPixelBytes, dst, dOff, dstPixelBytes, dstDepth, i, ub)
           [] r.kind = "RGB16ToRGB8"  -> reformatRGB16ToRGB8(src, sOff, srcPixelBytes, srcDepth, dst, dOff, dstPixelBytes, i, ub)
           [] r.kind = "RGB16ToRGB16" -> reformatRGB16ToRGB16(src, sOff, srcPixelBytes, srcDepth, dst, dOff, dstPixelBytes, dstDepth, i, ub)
       ELSE
         CASE r.kind = "FloatToFloat" -> transformFloatToFloat(t, src, sOff, srcPixelBytes, dst, dOff, dstPixelBytes, i)
           [] r.kind = "FloatToRGB8"  -> transformFloatToRGB8(t, src, sOff, srcPixelBytes, dst, dOff, dstPixelBytes, i, ub)
           [] r.kind = "FloatToRGB16" -> transformFloatToRGB16(t, src, sOff, srcPixelBytes, dst, dOff, dstPixelBytes, dstDepth, i, ub)
           [] r.kind = "RGB8ToFloat"  -> transformRGB8ToFloat(t, src, sOff, srcPixelBytes, dst, dOff, dstPixelBytes, i, ub)
           [] r.kind = "RGB16ToFloat" -> transformRGB16ToFloat(t, src, sOff, srcPixelBytes, srcDepth, dst, dOff, dstPixelBytes, i, ub)
           [] r.kind = "RGB8ToRGB8"   -> transformRGB8ToRGB8(t, src, sOff, srcPixelBytes, dst, dOff, dstPixelBytes, i, ub)
           [] r.kind = "RGB8ToRGB16"  -> transformRGB8ToRGB16(t, src, sOff, srcPixelBytes, dst, dOff, dstPixelBytes, dstDepth, i, ub)
           [] r.kind = "RGB16ToRGB8"  -> transformRGB16ToRGB8(t, src, sOff, srcPixelBytes, srcDepth, dst, dOff, dstPixelBytes, i, ub)
           [] r.kind = "RGB16ToRGB16" -> transformRGB16ToRGB16(t, src, sOff, srcPixelBytes, srcDepth, dst, dOff, dstPixelBytes, dstDepth, i, ub))


(***************************************************************************)
(* The external colour engine: cmsDoTransform converts pixel i of its      *)
(* input to pixel i of its output, a function of that pixel alone.  The    *)
(* handle always uses the float layouts of clTransformFormatToLCMSFormat.  *)
(***************************************************************************)
LCMSChannels(format) == IF format = CL_XF_RGBA THEN 4 ELSE 3

cmsDoTransform(t, src, sOff, dst, dOff, i) ==
    LET ns == LCMSChannels(t.srcFormat)
        nd == LCMSChannels(t.dstFormat)
        sp == sOff + i * ns
        dp == dOff + i * nd
    IN \* the engine's colour result, some function of the three inputs
       Store(dst, dp,
             PixelVals(nd = 4, ns = 4, <<src[sp + 3], src[sp + 1], src[sp + 2]>>,
                       src[sp + 4], F32One),
             (sp + 1)..(sp + ns))

(***************************************************************************)
(* Bounds and inputs.                                                      *)
(***************************************************************************)
MaxPixels == 3    \* pixelCount ranges over 0..MaxPixels
MaxTasks  == 3    \* taskCount ranges over 1..MaxTasks
MaxRuns   == 2    \* clTransformRun calls on one transform

\* sizeof of one element of a buffer of the given format
ElemBytes(format, depth) ==
    IF clTransformFormatIsFloat(format, depth) THEN 4
    ELSE IF depth > 8 THEN 2 ELSE 1

Channels(format, depth) == clTransformFormatToPixelBytes(format, depth) \div ElemBytes(format, depth)

\* what the destination buffer holds where nothing was written
\* what a destination buffer holds before a run: a value no conversion of
\* the samples produces
StaleFloat == [s |-> 0, m |-> 0, e |-> -1]

Stale(format, depth) == IF clTransformFormatIsFloat(format, depth) THEN StaleFloat ELSE -1

\* source pixel p (0-based), channel c (1-based), three different pixels
SampleU8  == << <<10, 20, 30, 40>>, <<255, 128, 0, 200>>, <<1, 2, 3, 254>>, <<7, 77, 177, 0>> >>
SampleU16 == << <<1023, 171, 0, 512>>, <<200, 300, 400, 1000>>, <<5, 6, 7, 8>>, <<341, 2, 683, 1>> >>
SampleF32 == << <<F32Half, F32Ratio(1, 4), F32One, F32Ratio(3, 4)>>,
                <<F32Zero, F32One, F32Ratio(1, 8), F32One>>,
                <<F32Ratio(3, 4), F32Half, F32Ratio(1, 4), F32Half>>,
                <<F32Ratio(1, 8), F32Ratio(3, 8), F32Ratio(5, 8), F32Zero>> >>

SampleU12 == << <<4095, 2055, 1, 2048>>, <<171, 3000, 4000, 683>>, <<5, 6, 7, 8>>, <<1023, 2, 4094, 1>> >>

SamplePixel(format, depth, p) ==
    IF clTransformFormatIsFloat(format, depth) THEN SampleF32[p + 1]
    ELSE IF depth > 10 THEN SampleU12[p + 1]
    ELSE IF depth > 8 THEN SampleU16[p + 1] ELSE SampleU8[p + 1]

\* n pixels of the format, pixel p being sample (o + p) mod 4
SourceBuffer(format, depth, n, o) ==
    LET ch == Channels(format, depth)
    IN [k \in 1..(n * ch) |->
           SamplePixel(format, depth, (o + (k - 1) \div ch) % 4)[((k - 1) % ch) + 1]]

StaleBuffer(format, depth, n) ==
    [k \in 1..(n * Channels(format, depth)) |-> Stale(format, depth)]

Formats == { <<CL_XF_RGBA, 8>>, <<CL_XF_RGB, 10>>, <<CL_XF_RGBA, 32>> }

\* the (source, destination) profile pairs transforms are created for
ProfilePairs ==
    { <<"bt709", "bt709">>, <<"bt709", "bt709b">>, <<"bt709", "bt2020">>,
      <<"bt2020g2", "bt709">>, <<"bt709", "bt2020g2">>, <<"NULL", "bt2020">>, <<"NULL", "NULL">>,
      <<"broken", "bt709">>, <<"bt709", "broken">>, <<"lut", "bt709">> }

UBChoices == { [garbage |-> g, cast |-> c] : g \in {F32Zero, F32Half}, c \in {"wrap"} }


(***************************************************************************)
(* powf of the C library for 0 <= x and 0 < y < 2^24, taken as the         *)
(* correctly rounded value of x^y.  The value is computed on naturals of   *)
(* any size, kept as sequences of 14-bit digits (least significant first), *)
(* in fixed point with 56 fraction bits (4 digits).                        *)
(***************************************************************************)
BigDigit(a, i) == IF i >= 1 /\ i <= Len(a) THEN a[i] ELSE 0

\* the digits i..j of a
BigDigits(a, i, j) == [k \in 1..(j - i + 1) |-> BigDigit(a, i + k - 1)]

\* sum of a[i] * b[k+1-i] over the digits i..Len(a)
RECURSIVE BigColumn(_, _, _, _)
BigColumn(a, b, k, i) ==
    IF i > Len(a) \/ i > k THEN 0
    ELSE a[i] * BigDigit(b, k + 1 - i) + BigColumn(a, b, k, i + 1)

\* the digits k.. of a * b, with the carry into digit k
RECURSIVE BigMulFrom(_, _, _, _)
BigMulFrom(a, b, k, carry) ==
    IF k > Len(a) + Len(b) THEN <<>>
    ELSE With(carry + BigColumn(a, b, k, 1), LAMBDA c :
              <<c % 2^14>> \o BigMulFrom(a, b, k + 1, c \div 2^14))

\* a * b (at most 5 digits in one of them)
BigMul(a, b) == BigMulFrom(a, b, 1, 0)

\* the digits k..n of a + b, with the carry into digit k
RECURSIVE BigAddFrom(_, _, _, _, _)
BigAddFrom(a, b, k, n, carry) ==
    IF k > n THEN <<>>
    ELSE With(carry + BigDigit(a, k) + BigDigit(b, k), LAMBDA c :
              <<c % 2^14>> \o BigAddFrom(a, b, k + 1, n, c \div 2^14))

\* a + b on n digits
BigAdd(a, b, n) == BigAddFrom(a, b, 1, n, 0)

\* the digits k..n of a - b, with the borrow out of digit k
RECURSIVE BigSubFrom(_, _, _, _, _)
BigSubFrom(a, b, k, n, borrow) ==
    IF k > n THEN <<>>
    ELSE With(BigDigit(a, k) - BigDigit(b, k) - borrow, LAMBDA c :
              IF c < 0 THEN <<c + 2^14>> \o BigSubFrom(a, b, k + 1, n, 1)
              ELSE <<c>> \o BigSubFrom(a, b, k + 1, n, 0))

\* a - b on n digits, a >= b
BigSub(a, b, n) == BigSubFrom(a, b, 1, n, 0)

\* a \div 2^r, 0 <= r < 14
BigShrBits(a, r) ==
    [k \in 1..Len(a) |-> (a[k] \div 2^r) + (BigDigit(a, k + 1) % 2^r) * 2^(14 - r)]

\* a \div 2^s
BigShr(a, s) == BigShrBits(BigDigits(a, s \div 14 + 1, Len(a)), s % 14)

\* the digits 1..i of a \div n, where rem is the remainder of the digits above i
RECURSIVE BigDivFrom(_, _, _, _)
BigDivFrom(a, n, i, rem) ==
    IF i = 0 THEN <<>>
    ELSE With(rem * 2^14 + a[i], LAMBDA c :
              Append(BigDivFrom(a, n, i - 1, c % n), c \div n))

\* a \div n, 0 < n < 2^16
BigDivSmall(a, n) == BigDivFrom(a, n, Len(a), 0)

BigIsZero(a) == \A k \in 1..Len(a) : a[k] = 0

\* the fixed-point values: 5 digits, the fifth is the integer part
FixOne == <<0, 0, 0, 0, 1>>

\* a * b in fixed point (rounded down)
FixMul(a, b) == BigDigits(BigMul(a, b), 5, 9)

\* k further bits of the binary logarithm of w in [1, 2), appended to acc: w
\* is squared, and the next bit is 1 when the square reaches 2
RECURSIVE Log2Bits(_, _, _)
Log2Bits(w, k, acc) ==
    IF k = 0 THEN [w |-> w, acc |-> acc]
    ELSE With(FixMul(w, w), LAMBDA sq :
              IF sq[5] >= 2 THEN Log2Bits(BigShrBits(sq, 1), k - 1, 2 * acc + 1)
              ELSE Log2Bits(sq, k - 1, 2 * acc))

\* the first n digits (from the most significant) of the fraction log2(w)
RECURSIVE Log2Digits(_, _)
Log2Digits(w, n) ==
    IF n = 0 THEN <<>>
    ELSE With(Log2Bits(w, 14, 0), LAMBDA st :
              Append(Log2Digits(st.w, n - 1), st.acc))

\* log2(m / 2^23) for a float mantissa m, 4 fraction digits
Log2Frac(m) == Log2Digits(<<0, 0, (m * 32) % 2^14, ((m * 32) \div 2^14) % 2^14, 1>>, 4)

\* ln 2 in fixed point
FixLn2 == <<3961, 8007, 8575, 11356, 0>>

\* the term t^n/n! of the series of e^t added to st.sum, st.term being the
\* term before it
ExpTerm(t, st, n) ==
    With(BigDivSmall(FixMul(st.term, t), n), LAMBDA next :
         [term |-> next, sum |-> BigAdd(st.sum, next, 5)])

\* the series of e^t from its term n on, until the terms vanish
RECURSIVE ExpSeries(_, _, _)
ExpSeries(t, st, n) ==
    IF BigIsZero(st.term) THEN st.sum ELSE ExpSeries(t, ExpTerm(t, st, n), n + 1)

\* 2^g for a fraction g of 4 digits: e^(g * ln 2) by its series
Exp2Frac(g) == ExpSeries(FixMul(g, FixLn2), [term |-> FixOne, sum |-> FixOne], 1)

\* the float nearest to r * 2^e for a fixed-point r in [1, 2]
FixRound(r, e) ==
    F32Round(0, 2 * ((r[3] \div 2) + r[4] * 2^13 + r[5] * 2^27)
                + (IF r[1] # 0 \/ r[2] # 0 \/ r[3] % 2 = 1 THEN 1 ELSE 0),
             e - 28)

\* 2^q (up = TRUE) or 2^(-q) for a fixed-point q >= 0 of 6 digits
Exp2Round(q, up) ==
    With(q[5] + q[6] * 2^14, LAMBDA qi :
         IF up THEN FixRound(Exp2Frac(BigDigits(q, 1, 4)), qi)
         ELSE IF BigIsZero(BigDigits(q, 1, 4)) THEN FixRound(FixOne, -qi)
         ELSE FixRound(Exp2Frac(BigSub(FixOne, BigDigits(q, 1, 4), 4)), -qi - 1))

\* y * a for a float y < 2^24 and a fixed-point a, on 6 digits
FixScale(y, a) ==
    BigDigits(BigShr(BigMul(a, <<y.m % 2^14, y.m \div 2^14>>), -y.e), 1, 6)

powf(x, y) ==
    IF x.m = 0 THEN F32Zero
    ELSE With(Log2Frac(x.m), LAMBDA l :
         IF x.e + 23 >= 0
         THEN Exp2Round(FixScale(y, BigDigits(l, 1, 4) \o <<x.e + 23>>), TRUE)
         ELSE IF BigIsZero(l)
         THEN Exp2Round(FixScale(y, <<0, 0, 0, 0, -(x.e + 23)>>), FALSE)
         ELSE Exp2Round(FixScale(y, BigSub(FixOne, l, 4) \o <<-(x.e + 23) - 1>>), FALSE))

(***************************************************************************)
(* SMPTE ST.2084 (transform.c).                                            *)
(***************************************************************************)
PQ_C1 == F32Lit(14024704, -24)   \* 0.8359375
PQ_C2 == F32Lit(9883648, -19)    \* 18.8515625
PQ_C3 == F32Lit(9797632, -19)    \* 18.6875
PQ_M1 == F32Lit(10690560, -26)   \* 0.1593017578125
PQ_M2 == F32Lit(10334208, -17)   \* 78.84375

\* equation 4.1: L = ((max(N^(1/m2) - c1, 0)) / (c2 - c3*N^(1/m2)))^(1/m1)
PQ_EOTF(N) ==
    With(powf(N, F32Div(F32One, PQ_M2)), LAMBDA N1m2 :
         With(F32Sub(N1m2, PQ_C1), LAMBDA N1m2c1 :
              powf(F32Div(IF F32Less(N1m2c1, F32Zero) THEN F32Zero ELSE N1m2c1,
                          F32Sub(PQ_C2, F32Mul(PQ_C3, N1m2))),
                   F32Div(F32One, PQ_M1))))

\* equation 5.2: N = ((c1 + (c2 * L^m1)) / (1 + (c3 * L^m1)))^m2
PQ_OETF(L) ==
    With(powf(L, PQ_M1), LAMBDA Lm1 :
         powf(F32Div(F32Add(PQ_C1, F32Mul(PQ_C2, Lm1)),
                     F32Add(F32One, F32Mul(PQ_C3, Lm1))),
              PQ_M2))

(***************************************************************************)
(* State.                                                                  *)
(***************************************************************************)
VARIABLES
    C,            \* the context: [ccmmAllowed]
    transform,    \* the clTransform
    srcPixels,    \* the source buffer handed to clTransformRun
    dstPixels,    \* the destination buffer handed to clTransformRun
    pixelCount,   \* the pixelCount handed to clTransformRun
    ub,           \* how this build resolves undefined behaviour
    pc,           \* where the calling thread is
    taskCount,    \* doMultithreadedTransform's taskCount after the clamp
    useCCMM,      \* clTransformRun's useCCMM
    loopI,        \* doMultithreadedTransform's loop counter i
    infos,        \* the clTransformTask array
    tasks,        \* the worker threads: [st, i, wr, rd] per task
    heap,         \* which of the two arrays are allocated
    runs,         \* clTransformRun calls made so far
    dstAtStart,   \* the destination buffer as the current run found it
    prevOut,      \* the destination buffer as the previous run left it
    prof,         \* the profile under work: see ProfNone
    pq,           \* the PQ sample under work: see PQNone
    lcms,         \* the calls made to the external engine: see LcmsNone
    io,           \* the file and AVIF operation under work: see IoNone
    log           \* [wr: elements the calling thread wrote in this run,
                  \*  created: tasks created in this run,
                  \*  uaf: a worker ran after the arrays were freed,
                  \*  tc, prevTc: the taskCount argument of this run and of
                  \*  the run before it]

vars == <<C, transform, srcPixels, dstPixels, pixelCount, ub, pc, taskCount, useCCMM,
          loopI, infos, tasks, heap, runs, dstAtStart, prevOut, prof, pq, lcms, io, log>>

\* no profile operation has been made: cur is the clProfile being worked on,
\* orig the profile it was derived from, res the outputs of the last query,
\* allocs the clProfile structs allocated and not freed, op the last
\* operation, arg its arguments, ops the operations made
ProfNone == [cur |-> [null |-> TRUE], orig |-> [null |-> TRUE], res |-> [ret |-> "none"],
             allocs |-> 0, op |-> "none", arg |-> [none |-> TRUE], ops |-> 0]

\* no call of the external engine has been made: created and xyzCreated
\* count cmsCreateTransformTHR and cmsCreateXYZProfileTHR, deleted counts
\* cmsDeleteTransform, xyzClosed and profilesClosed count cmsCloseProfile on
\* the synthetic XYZ profile and on the source or destination profile
LcmsNone == [created |-> 0, xyzCreated |-> 0, deleted |-> 0, xyzClosed |-> 0,
             profilesClosed |-> 0]

\* no file or AVIF operation is under work; the specifications of those
\* operations say what io holds
IoNone == [stage |-> "none"]

\* no PQ sample has been drawn: x is the encoded sample, L = PQ_EOTF(x) once
\* stage is "linear", N = PQ_OETF(L) once stage is "encoded"
PQNone == [stage |-> "none", x |-> F32Zero, L |-> F32Zero, N |-> F32Zero]

\* clTransformUsesCCMM without the test of the source profile
clTransformUsesCCMM_SkipSrc(ctx, t) ==
    IF ~clProfileUsesCCMM(t.dstProfile) THEN FALSE
    ELSE ctx.ccmmAllowed

\* clTransformUsesCCMM without the context's ccmmAllowed flag
clTransformUsesCCMM_IgnoreAllowed(ctx, t) ==
    IF ~clProfileUsesCCMM(t.srcProfile) THEN FALSE
    ELSE IF ~clProfileUsesCCMM(t.dstProfile) THEN FALSE
    ELSE TRUE

clTransformUsesCCMM(ctx, t) ==
    IF ~clProfileUsesCCMM(t.srcProfile) THEN FALSE
    ELSE IF ~clProfileUsesCCMM(t.dstProfile) THEN FALSE
    ELSE ctx.ccmmAllowed

\* transformTaskFunc(info), one pixel of it
transformTaskFunc(t, ccmm, src, sOff, dst, dOff, i, u) ==
    IF ccmm THEN clCCMMTransform(t, src, sOff, dst, dOff, i, u)
    ELSE cmsDoTransform(t, src, sOff, dst, dOff, i)

\* transformTaskFunc(info) over pixels i .. n-1 of the range at (sOff, dOff)
RECURSIVE RunPixels(_, _, _, _, _, _, _, _, _, _)
RunPixels(t, ccmm, src, sOff, dst, dOff, i, n, u, acc) ==
    IF i >= n THEN [mem |-> dst, wr |-> acc.wr, rd |-> acc.rd]
    ELSE With(transformTaskFunc(t, ccmm, src, sOff, dst, dOff, i, u), LAMBDA r :
            RunPixels(t, ccmm, src, sOff, r.mem, dOff, i + 1, n, u,
                      [wr |-> acc.wr \cup r.wr, rd |-> acc.rd \cup r.rd]))

NoAccess == [wr |-> {}, rd |-> {}]

SrcElemBytes(t) == ElemBytes(t.srcFormat, t.srcDepth)
DstElemBytes(t) == ElemBytes(t.dstFormat, t.dstDepth)

Init ==
    /\ C \in [ccmmAllowed : BOOLEAN]
    /\ ub \in UBChoices
    /\ pixelCount \in 0..MaxPixels
    /\ \E sf \in Formats, df \in Formats, pp \in ProfilePairs :
          /\ transform = clTransformCreate(pp[1], sf[1], sf[2], pp[2], df[1], df[2])
          \* the external engine is handed float buffers only
          /\ clTransformUsesCCMM(C, transform)
                \/ (clTransformFormatIsFloat(sf[1], sf[2]) /\ clTransformFormatIsFloat(df[1], df[2]))
          /\ srcPixels = SourceBuffer(sf[1], sf[2], pixelCount, 0)
          /\ dstPixels = StaleBuffer(df[1], df[2], pixelCount)
    /\ prof = ProfNone
    /\ pq = PQNone
    /\ lcms = LcmsNone
    /\ io = IoNone
    /\ pc = "idle"
    /\ taskCount = 0
    /\ useCCMM = FALSE
    /\ loopI = 0
    /\ infos = <<>>
    /\ tasks = <<>>
    /\ heap = [tasks |-> FALSE, infos |-> FALSE]
    /\ runs = 0
    /\ dstAtStart = dstPixels
    /\ prevOut = <<>>
    /\ log = [wr |-> {}, created |-> 0, uaf |-> FALSE, tc |-> 0, prevTc |-> 0]

\* the lazy creation of the engine handle in clTransformRun
LazyHandle(t) ==
    IF t.hTransform = "NULL"
    THEN [t EXCEPT !.xyzProfile = IF (t.srcProfile = "NULL" \/ t.dstProfile = "NULL")
                                     /\ t.xyzProfile = "NULL"
                                  THEN "XYZ" ELSE t.xyzProfile,
                   !.hTransform = "HTRANSFORM"]
    ELSE t

\* LazyCalls with the second creation of the XYZ profile not guarded
LazyCalls_Unguarded(t, l) ==
    IF t.hTransform = "NULL"
    THEN [l EXCEPT !.created = @ + 1,
                   !.xyzCreated = @ + (IF t.srcProfile = "NULL" /\ t.xyzProfile = "NULL"
                                       THEN 1 ELSE 0)
                                    + (IF t.dstProfile = "NULL" THEN 1 ELSE 0)]
    ELSE l

\* the engine calls of the lazy creation: cmsCreateXYZProfileTHR for a null
\* source when there is no XYZ profile yet, then for a null destination when
\* there is still none, then cmsCreateTransformTHR
LazyCalls(t, l) ==
    IF t.hTransform = "NULL"
    THEN With(IF t.srcProfile = "NULL" /\ t.xyzProfile = "NULL" THEN 1 ELSE 0, LAMBDA forSrc :
         With(IF t.dstProfile = "NULL" /\ t.xyzProfile = "NULL" /\ forSrc = 0 THEN 1 ELSE 0,
              LAMBDA forDst :
                 [l EXCEPT !.created = @ + 1, !.xyzCreated = @ + forSrc + forDst]))
    ELSE l

\* clTransformRun(C, transform, tc, srcPixels, dstPixels, pixelCount) up to
\* the point where doMultithreadedTransform has run the conversion inline or
\* has allocated its two arrays
clTransformRun(tc) ==
    /\ pc = "idle"
    /\ runs < MaxRuns
    /\ transform' = IF clTransformUsesCCMM(C, transform)
                    THEN clTransformPrepare(transform, ub.garbage)
                    ELSE LazyHandle(transform)
    /\ lcms' = IF clTransformUsesCCMM(C, transform) THEN lcms ELSE LazyCalls(transform, lcms)
    /\ LET ccmm == clTransformUsesCCMM(C, transform)
           n    == IF tc > pixelCount THEN pixelCount ELSE tc
       IN /\ useCCMM' = ccmm
          /\ taskCount' = n
          /\ dstAtStart' = dstPixels
          /\ prevOut' = IF runs = 0 THEN <<>> ELSE dstPixels
          /\ runs' = runs + 1
          /\ loopI' = 0
          /\ tasks' = <<>>
          /\ IF n = 1 THEN
                \* Don't bother making any new threads
                \E r \in {RunPixels(transform', ccmm, srcPixels, 0, dstPixels, 0, 0,
                                     pixelCount, ub, NoAccess)} :
                   /\ dstPixels' = r.mem
                   /\ log' = [wr |-> r.wr, created |-> 0, uaf |-> FALSE, tc |-> tc, prevTc |-> log.tc]
                   /\ pc' = "returned"
                   /\ UNCHANGED <<infos, heap>>
             ELSE IF n = 0 THEN
                \* pixelCount / taskCount divides by zero: the build traps, or
                \* yields pixelsPerTask = 0 and both loops run zero times
                /\ \E outcome \in {"trap", "zero"} :
                      pc' = IF outcome = "trap" THEN "crashed" ELSE "joined"
                /\ heap' = [tasks |-> pc' = "joined", infos |-> pc' = "joined"]
                /\ log' = [wr |-> {}, created |-> 0, uaf |-> FALSE, tc |-> tc, prevTc |-> log.tc]
                /\ UNCHANGED <<dstPixels, infos>>
             ELSE
                /\ pc' = "creating"
                /\ heap' = [tasks |-> TRUE, infos |-> TRUE]
                /\ infos' = <<>>
                /\ log' = [wr |-> {}, created |-> 0, uaf |-> FALSE, tc |-> tc, prevTc |-> log.tc]
                /\ UNCHANGED dstPixels
    /\ UNCHANGED <<io, pq, prof, C, srcPixels, pixelCount, ub>>

\* TaskInfo with the last task given pixelsPerTask pixels like the others
TaskInfo_NoRemainder(i, n, count, srcPixelBytes, dstPixelBytes, ccmm) ==
    LET pixelsPerTask == count \div n
    IN [inPixels   |-> i * pixelsPerTask * srcPixelBytes,
        outPixels  |-> i * pixelsPerTask * dstPixelBytes,
        pixelCount |-> pixelsPerTask,
        useCCMM    |-> ccmm]

\* TaskInfo with outPixels advanced by the source's pixel size
TaskInfo_SrcStride(i, n, count, srcPixelBytes, dstPixelBytes, ccmm) ==
    LET pixelsPerTask      == count \div n
        lastTaskPixelCount == count - (pixelsPerTask * (n - 1))
    IN [inPixels   |-> i * pixelsPerTask * srcPixelBytes,
        outPixels  |-> i * pixelsPerTask * srcPixelBytes,
        pixelCount |-> IF i = n - 1 THEN lastTaskPixelCount ELSE pixelsPerTask,
        useCCMM    |-> ccmm]

\* element i of the split (0-based): where its range starts and how long it is
TaskInfo(i, n, count, srcPixelBytes, dstPixelBytes, ccmm) ==
    LET pixelsPerTask      == count \div n
        lastTaskPixelCount == count - (pixelsPerTask * (n - 1))
    IN [inPixels   |-> i * pixelsPerTask * srcPixelBytes,
        outPixels  |-> i * pixelsPerTask * dstPixelBytes,
        pixelCount |-> IF i = n - 1 THEN lastTaskPixelCount ELSE pixelsPerTask,
        useCCMM    |-> ccmm]

\* one round of the first loop: fill infos[i] and start its task
CreateTask ==
    /\ pc = "creating"
    /\ loopI < taskCount
    /\ LET srcPixelBytes == clTransformFormatToPixelBytes(transform.srcFormat, transform.srcDepth)
           dstPixelBytes == clTransformFormatToPixelBytes(transform.dstFormat, transform.dstDepth)
       IN infos' = Append(infos, TaskInfo(loopI, taskCount, pixelCount, srcPixelBytes, dstPixelBytes, useCCMM))
    /\ tasks' = Append(tasks, [st |-> "running", i |-> 0, wr |-> {}, rd |-> {}])
    /\ log' = [log EXCEPT !.created = @ + 1]
    /\ loopI' = IF loopI + 1 = taskCount THEN 0 ELSE loopI + 1
    /\ pc' = IF loopI + 1 = taskCount THEN "joining" ELSE "creating"
    /\ UNCHANGED <<io, lcms, pq, prof, C, transform, srcPixels, dstPixels, pixelCount, ub, taskCount, useCCMM,
                   heap, runs, dstAtStart, prevOut>>

\* worker k converts the next pixel of its range
TaskStep(k) ==
    /\ k \in DOMAIN tasks
    /\ tasks[k].st = "running"
    /\ \E r \in {transformTaskFunc(transform, infos[k].useCCMM,
                                    srcPixels, infos[k].inPixels \div SrcElemBytes(transform),
                                    dstPixels, infos[k].outPixels \div DstElemBytes(transform),
                                    tasks[k].i, ub)} :
          /\ dstPixels' = r.mem
          /\ tasks' = [tasks EXCEPT ![k] =
                          [st |-> IF tasks[k].i + 1 >= infos[k].pixelCount
                                  THEN "finished" ELSE "running",
                           i  |-> tasks[k].i + 1,
                           wr |-> tasks[k].wr \cup r.wr,
                           rd |-> tasks[k].rd \cup r.rd]]
    /\ log' = [log EXCEPT !.uaf = @ \/ ~heap.infos]
    /\ UNCHANGED <<io, lcms, pq, prof, C, transform, srcPixels, pixelCount, ub, pc, taskCount, useCCMM, loopI,
                   infos, heap, runs, dstAtStart, prevOut>>

\* clTaskDestroy(C, task) returns once the task's thread has finished
TaskFinished(k) == tasks[k].st = "finished"

\* one round of the second loop: clTaskDestroy(C, tasks[i])
clTaskDestroy ==
    /\ pc = "joining"
    /\ TaskFinished(loopI + 1)
    /\ tasks' = [tasks EXCEPT ![loopI + 1].st = "joined"]
    /\ loopI' = IF loopI + 1 = taskCount THEN 0 ELSE loopI + 1
    /\ pc' = IF loopI + 1 = taskCount THEN "joined" ELSE "joining"
    /\ UNCHANGED <<io, lcms, pq, prof, C, transform, srcPixels, dstPixels, pixelCount, ub, taskCount, useCCMM,
                   infos, heap, runs, dstAtStart, prevOut, log>>

\* FreeAndReturn with the two clFree calls and the return ahead of the joins
FreeAndReturn_BeforeJoin ==
    /\ pc = "joining"
    /\ heap' = [tasks |-> FALSE, infos |-> FALSE]
    /\ pc' = "returned"
    /\ UNCHANGED <<io, lcms, pq, prof, C, transform, srcPixels, dstPixels, pixelCount, ub, taskCount, useCCMM,
                   loopI, infos, tasks, runs, dstAtStart, prevOut, log>>

\* clFree(tasks); clFree(infos); and the return to clTransformRun's caller
FreeAndReturn ==
    /\ pc = "joined"
    /\ heap' = [tasks |-> FALSE, infos |-> FALSE]
    /\ pc' = "returned"
    /\ UNCHANGED <<io, lcms, pq, prof, C, transform, srcPixels, dstPixels, pixelCount, ub, taskCount, useCCMM,
                   loopI, infos, tasks, runs, dstAtStart, prevOut, log>>

\* the caller goes on after clTransformRun has returned
Continue ==
    /\ pc = "returned"
    /\ pc' = "idle"
    /\ UNCHANGED <<io, lcms, pq, prof, C, transform, srcPixels, dstPixels, pixelCount, ub, taskCount, useCCMM,
                   loopI, infos, tasks, heap, runs, dstAtStart, prevOut, log>>

\* a direct call of clTransformPrepare(C, transform)
Prepare ==
    /\ pc = "idle"
    /\ transform' = clTransformPrepare(transform, ub.garbage)
    /\ UNCHANGED <<io, lcms, pq, prof, C, srcPixels, dstPixels, pixelCount, ub, pc, taskCount, useCCMM,
                   loopI, infos, tasks, heap, runs, dstAtStart, prevOut, log>>

\* clTransformDestroy(C, transform)
clTransformDestroy ==
    /\ pc = "idle"
    /\ pc' = "destroyed"
    /\ lcms' = [lcms EXCEPT !.deleted = @ + (IF transform.hTransform # "NULL" THEN 1 ELSE 0),
                            !.xyzClosed = @ + (IF transform.xyzProfile # "NULL" THEN 1 ELSE 0)]
    /\ transform' = [transform EXCEPT !.hTransform = "NULL", !.xyzProfile = "NULL"]
    /\ UNCHANGED <<io, pq, prof, C, srcPixels, dstPixels, pixelCount, ub, taskCount, useCCMM,
                   loopI, infos, tasks, heap, runs, dstAtStart, prevOut, log>>

Next ==
    \/ \E tc \in 1..MaxTasks : clTransformRun(tc)
    \/ CreateTask
    \/ \E k \in 1..MaxTasks : TaskStep(k)
    \/ clTaskDestroy
    \/ FreeAndReturn
    \/ Continue
    \/ Prepare
    \/ clTransformDestroy

Spec == Init /\ [][Next]_vars

(***************************************************************************)
(* The pixel converters alone: one transform per pair of layouts, run on   *)
(* the calling thread over one or two sample pixels.                       *)
(***************************************************************************)
MaxPixPixels == 2   \* pixelCount ranges over 1..MaxPixPixels

FormatsPix == { <<f, d>> : f \in {CL_XF_RGB, CL_XF_RGBA}, d \in {8, 10, 12, 32} }

ProfilePairsPix == { <<"bt709", "bt709b">>, <<"bt709", "bt2020">>, <<"bt2020g2", "bt709">> }

InitPix ==
    /\ C = [ccmmAllowed |-> TRUE]
    /\ ub \in UBChoices
    /\ pixelCount \in 1..MaxPixPixels
    /\ \E sf \in FormatsPix, df \in FormatsPix, pp \in ProfilePairsPix, o \in 0..3 :
          /\ transform = clTransformCreate(pp[1], sf[1], sf[2], pp[2], df[1], df[2])
          /\ srcPixels = SourceBuffer(sf[1], sf[2], pixelCount, o)
          /\ dstPixels = StaleBuffer(df[1], df[2], pixelCount)
    /\ prof = ProfNone
    /\ pq = PQNone
    /\ lcms = LcmsNone
    /\ io = IoNone
    /\ pc = "idle"
    /\ taskCount = 0
    /\ useCCMM = FALSE
    /\ loopI = 0
    /\ infos = <<>>
    /\ tasks = <<>>
    /\ heap = [tasks |-> FALSE, infos |-> FALSE]
    /\ runs = 0
    /\ dstAtStart = dstPixels
    /\ prevOut = <<>>
    /\ log = [wr |-> {}, created |-> 0, uaf |-> FALSE, tc |-> 0, prevTc |-> 0]

NextPix ==
    \/ clTransformRun(1)
    \/ Continue

SpecPix == InitPix /\ [][NextPix]_vars

(***************************************************************************)
(* Properties of the task split and of preparation.                        *)
(***************************************************************************)
Min(a, b) == IF a < b THEN a ELSE b

\* the split of the current run as the contract states it: n tasks, task k
\* (1-based) takes SliceCount(k) pixels from pixel SliceStart(k) on
SliceN        == Min(log.tc, pixelCount)
SliceStart(k) == (k - 1) * (pixelCount \div SliceN)
SliceCount(k) == IF k = SliceN THEN pixelCount - (SliceN - 1) * (pixelCount \div SliceN)
                 ELSE pixelCount \div SliceN
\* the elements of a buffer of ch channels per pixel that slice k covers
SliceElems(k, ch) == (SliceStart(k) * ch + 1)..((SliceStart(k) + SliceCount(k)) * ch)

SrcChannels == Channels(transform.srcFormat, transform.srcDepth)
DstChannels == Channels(transform.dstFormat, transform.dstDepth)

\* C1: a run split over several tasks leaves the destination buffer exactly
\* as the same run with one task leaves it, whichever converter is selected
C1_TasksRefineOneTask ==
    (pc = "returned" /\ useCCMM) =>
        dstPixels = RunPixels(transform, TRUE, srcPixels, 0, dstAtStart, 0, 0,
                              pixelCount, ub, NoAccess).mem

\* C2: with pixelCount >= 1 the split has n = min(taskCount, pixelCount)
\* slices; slice i starts at pixel i * floor(pixelCount / n), every slice but
\* the last has floor(pixelCount / n) pixels and the last takes the rest, so
\* the slices are non-empty, contiguous, disjoint and cover 0 .. pixelCount-1;
\* with n = 1 the conversion runs inline and no task is created
C2_SplitCoversPixels ==
    /\ (pc \in {"joining", "joined"} /\ pixelCount >= 1) =>
          /\ Len(infos) = SliceN
          /\ log.created = SliceN
          /\ \A k \in 1..Len(infos) :
                /\ infos[k].inPixels  = SliceStart(k) * SrcChannels * SrcElemBytes(transform)
                /\ infos[k].outPixels = SliceStart(k) * DstChannels * DstElemBytes(transform)
                /\ infos[k].pixelCount = SliceCount(k)
                /\ infos[k].pixelCount >= 1
          /\ \A k \in 1..(Len(infos) - 1) :
                infos[k + 1].inPixels =
                    infos[k].inPixels + infos[k].pixelCount * SrcChannels * SrcElemBytes(transform)
          /\ infos[1].inPixels = 0
          /\ infos[Len(infos)].inPixels
                + infos[Len(infos)].pixelCount * SrcChannels * SrcElemBytes(transform)
             = pixelCount * SrcChannels * SrcElemBytes(transform)
    /\ (pc = "returned" /\ pixelCount >= 1 /\ SliceN = 1) =>
          (log.created = 0 /\ tasks = <<>>)

C2_Witness ==
    pc = "joined" /\ pixelCount = 3 /\ log.tc = 2 /\ Len(infos) = 2

\* C3: clTransformRun has returned only when every task of the run has been
\* joined, no task runs while either array is freed, and no task ever ran
\* after the arrays were freed
C3_JoinBeforeReturnAndFree ==
    /\ (pc \in {"returned", "idle", "destroyed"}) =>
          \A k \in DOMAIN tasks : tasks[k].st = "joined"
    /\ (\E k \in DOMAIN tasks : tasks[k].st # "joined") => (heap.tasks /\ heap.infos)
    /\ ~log.uaf

C3_Witness ==
    pc = "returned" /\ Len(tasks) = 3 /\ ~heap.tasks /\ ~heap.infos

\* what each task has read and written so far lies in its slice
C4_SliceAccess ==
    \A k \in DOMAIN tasks :
        /\ tasks[k].wr \subseteq SliceElems(k, DstChannels)
        /\ tasks[k].rd \subseteq SliceElems(k, SrcChannels)
        /\ \A j \in DOMAIN tasks : (j # k) => (tasks[j].wr \cap tasks[k].wr = {})

PreparedFields(t) == <<t.matSrcToDst, t.srcEOTF, t.srcGamma, t.dstOETF, t.dstInvGamma>>

C5_RepeatedRun ==
    (pc = "returned" /\ runs >= 2 /\ useCCMM /\ log.tc = log.prevTc) => (dstPixels = prevOut)

DeriveFails(profile) ==
    ~deriveXYZMatrixAndXTF(profile, GarbageMat(F32Zero), CL_XTF_NONE, F32Zero).ok

\* C6: when deriveXYZMatrixAndXTF fails for the source or the destination
\* profile the transform is not marked prepared and the run writes nothing
C6_FailedPrepareWritesNothing ==
    (/\ pc = "returned" /\ useCCMM
     /\ DeriveFails(transform.srcProfile) \/ DeriveFails(transform.dstProfile)) =>
        (~transform.ccmmReady /\ dstPixels = dstAtStart)


(***************************************************************************)
(* Properties of the pixel converters.                                     *)
(***************************************************************************)
PixMax(depth) == 2^depth - 1
SrcFloat == clTransformFormatIsFloat(transform.srcFormat, transform.srcDepth)
DstFloat == clTransformFormatIsFloat(transform.dstFormat, transform.dstDepth)
SrcAlpha == transform.srcFormat = CL_XF_RGBA
DstAlpha == transform.dstFormat = CL_XF_RGBA
\* channel c (1-based) of pixel p (0-based)
SrcAt(p, c) == srcPixels[p * SrcChannels + c]
DstAt(p, c) == dstPixels[p * DstChannels + c]

\* a run through clCCMMTransform has returned, and it took this path
Ran(path) == pc = "returned" /\ useCCMM /\ CCMMRoutine(transform).path = path

\* m * 2^e with m odd (or zero)
RECURSIVE OddPart(_, _)
OddPart(m, e) == IF m # 0 /\ m % 2 = 0 THEN OddPart(m \div 2, e + 1) ELSE <<m, e>>

\* the integer nearest to v * max, ties away from zero, for a float v >= 0
RoundScaledFloat(v, max) ==
    LET o == OddPart(v.m, v.e)
    IN IF o[2] >= 0 THEN o[1] * 2^o[2] * max
       ELSE (2 * o[1] * max + 2^(-o[2])) \div 2^(1 - o[2])

\* the integer nearest to x * dstMax / srcMax, ties away from zero, x >= 0
RoundScaledInt(x, srcMax, dstMax) == (2 * x * dstMax + srcMax) \div (2 * srcMax)

\* a source channel scaled exactly to the integer destination and rounded
ExactChannel(v) ==
    IF SrcFloat THEN RoundScaledFloat(v, PixMax(transform.dstDepth))
    ELSE RoundScaledInt(v, PixMax(transform.srcDepth), PixMax(transform.dstDepth))

\* a source alpha rescaled to the destination depth
AlphaRescaled(a) ==
    IF DstFloat
    THEN (IF SrcFloat THEN a
          ELSE F32Mul(F32FromInt(a), F32Div(F32One, F32FromInt(PixMax(transform.srcDepth)))))
    ELSE ExactChannel(a)

Opaque == IF DstFloat THEN F32One ELSE PixMax(transform.dstDepth)

\* C7: with matching profiles and the same 8-bit layout on both sides (RGB8
\* to RGB8, RGBA8 to RGBA8) the run leaves the destination buffer equal to
\* the source buffer
C7_IdentityReformat8 ==
    (/\ Ran("reformat")
     /\ transform.srcDepth = 8 /\ transform.dstDepth = 8
     /\ transform.srcFormat = transform.dstFormat) =>
        dstPixels = srcPixels

C7_Witness ==
    /\ Ran("reformat")
    /\ transform.srcDepth = 8 /\ transform.dstDepth = 8
    /\ transform.srcFormat = CL_XF_RGBA /\ transform.dstFormat = CL_XF_RGBA
    /\ pixelCount = 2
    /\ SubSeq(srcPixels, 1, 4) = <<10, 20, 30, 40>>
    /\ SubSeq(dstPixels, 1, 4) = <<10, 20, 30, 40>>

\* C8: on the transform path a destination alpha channel holds the source
\* pixel's alpha rescaled to the destination depth when the source has
\* alpha, and the opaque value when it has not
C8_TransformAlpha ==
    (Ran("transform") /\ DstAlpha) =>
        \A p \in 0..(pixelCount - 1) :
            DstAt(p, 4) = IF SrcAlpha THEN AlphaRescaled(SrcAt(p, 4)) ELSE Opaque

\* C9: on the reformat path a destination alpha channel holds the source
\* alpha rescaled by the ratio of the maximum channel values when the source
\* has alpha, and the opaque value when it has not; a destination without
\* alpha has exactly three channels per pixel written
C9_ReformatAlpha ==
    Ran("reformat") =>
        /\ DstAlpha =>
              \A p \in 0..(pixelCount - 1) :
                  DstAt(p, 4) = IF SrcAlpha THEN AlphaRescaled(SrcAt(p, 4)) ELSE Opaque
        /\ ~DstAlpha => (log.wr = 1..(pixelCount * 3))

\* C10: every integer channel the reformat path writes is the source channel
\* scaled exactly by the ratio of the maximum channel values and rounded to
\* nearest, ties away from zero
C10_ReformatRoundsToNearest ==
    (Ran("reformat") /\ ~DstFloat) =>
        \A p \in 0..(pixelCount - 1) :
            /\ \A c \in 1..3 : DstAt(p, c) = ExactChannel(SrcAt(p, c))
            /\ (DstAlpha /\ SrcAlpha) => (DstAt(p, 4) = ExactChannel(SrcAt(p, 4)))


\* pixel p of the source and of the destination buffer
SrcPixelAt(p) == SubSeq(srcPixels, p * SrcChannels + 1, (p + 1) * SrcChannels)
DstPixelAt(p) == SubSeq(dstPixels, p * DstChannels + 1, (p + 1) * DstChannels)

\* a reformat of RGB8 to RGBA16 at destination depth 12 has returned
C11_Case ==
    /\ Ran("reformat")
    /\ transform.srcFormat = CL_XF_RGB /\ transform.srcDepth = 8
    /\ transform.dstFormat = CL_XF_RGBA /\ transform.dstDepth = 12

\* C11 (as amended): reformatting RGB8 to RGBA16 at destination depth 12
\* with matching profiles maps the pixel (255,128,0) to (4095,2056,0,4095):
\* 128 * 4095 / 255 = 2055.53 is rounded to nearest, alpha is the maximum
C11_Reformat8To12 ==
    C11_Case =>
        \A p \in 0..(pixelCount - 1) :
            (SrcPixelAt(p) = <<255, 128, 0>>) => (DstPixelAt(p) = <<4095, 2056, 0, 4095>>)

C11_Witness ==
    /\ C11_Case
    /\ SrcPixelAt(0) = <<255, 128, 0>>
    /\ DstPixelAt(0) = <<4095, 2056, 0, 4095>>

\* C11 as stated: the pixel (255,128,0) is mapped to (4095,2055,0,4095)
C11_Original ==
    C11_Case =>
        \A p \in 0..(pixelCount - 1) :
            (SrcPixelAt(p) = <<255, 128, 0>>) => (DstPixelAt(p) = <<4095, 2055, 0, 4095>>)

\* C12: on the transform path every integer channel stored in the
\* destination lies in [0, 2^dstDepth - 1]: a converted value below 0 or
\* above 1 saturates at the nearest bound
C12_TransformInRange ==
    (Ran("transform") /\ ~DstFloat) =>
        \A k \in log.wr : dstPixels[k] \in 0..PixMax(transform.dstDepth)

\* both profiles of the transform report built-in-CMM capability
BothProfilesUseCCMM ==
    clProfileUsesCCMM(transform.srcProfile) /\ clProfileUsesCCMM(transform.dstProfile)

\* the choice of converter made by the runs so far
C13_ConverterChoice ==
    (runs > 0) =>
        /\ useCCMM = (C.ccmmAllowed /\ BothProfilesUseCCMM)
        /\ \A k \in DOMAIN infos : infos[k].useCCMM = useCCMM
        /\ (pc = "returned" /\ ~C.ccmmAllowed) =>
              /\ transform.hTransform # "NULL"
              /\ dstPixels = RunPixels(transform, FALSE, srcPixels, 0, dstAtStart, 0, 0,
                                       pixelCount, ub, NoAccess).mem

\* C13: clTransformRun uses the built-in converter iff the context's
\* ccmmAllowed flag is true and both profiles report built-in-CMM
\* capability; with ccmmAllowed false every run goes through the external
\* engine, and the run leaves the fields clTransformPrepare assigns alone
C13_CCMMOnlyWhenAllowed ==
    /\ []C13_ConverterChoice
    /\ [][(runs' = runs + 1 /\ ~C.ccmmAllowed) =>
              (PreparedFields(transform') = PreparedFields(transform))]_vars

C13_Witness ==
    /\ pc = "returned" /\ runs = 1 /\ pixelCount = 2
    /\ ~C.ccmmAllowed /\ BothProfilesUseCCMM
    /\ ~useCCMM /\ ~transform.ccmmReady
    /\ transform.hTransform = "HTRANSFORM"
    /\ dstPixels # dstAtStart

(***************************************************************************)
(* Profiles.  A clProfile is [null, description, handle]; the handle       *)
(* stands for the ICC tags the profile holds:                              *)
(*   valid  cmsOpenProfileFromMemTHR accepted the bytes                    *)
(*   wtpt, rXYZ, gXYZ, bXYZ  whether the tag is present                     *)
(*   prim   the primaries the colorant tags encode                         *)
(*   a2b0   [size, matrixOffset, matrixCurveOffset, curve, prim]: the raw  *)
(*          tag's size (0: no tag), its two offsets, what lies at the      *)
(*          matrix curve offset ([para, g, a]: a "para" curve of that      *)
(*          type, para = -1: something else), the primaries of its matrix  *)
(*   rTRC   [present, type, gamma]: parametric type and gamma              *)
(*   lumi   [present, y2]: the Y of the tag in halves (201 is 100.5)       *)
(*   desc   [present, mlu]: the entries [lang, country, text] of the MLU   *)
(***************************************************************************)
CL_PCT_UNKNOWN == "UNKNOWN"
CL_PCT_GAMMA   == "GAMMA"
CL_PCT_COMPLEX == "COMPLEX"

\* 2.4f
F32Gamma24 == F32Lit(10066330, -22)

NullProfile == [null |-> TRUE]
NullHandle  == [valid |-> FALSE]
NoTag       == [present |-> FALSE]

\* (cmsFloat64Number)n, in halves
DoubleOfInt(n) == 2 * n

\* (int)y for a double y in halves: the conversion truncates toward zero
IntOfDouble(y2) == IF y2 >= 0 THEN y2 \div 2 ELSE -((-y2) \div 2)

\* cmsMLUgetASCII(mlu, lang, country, ...): the entry of that language and
\* country, else the first entry of that language, else the first entry;
\* "NULL" stands for a length of 0
cmsMLUgetASCII(mlu, lang, country) ==
    IF Len(mlu) = 0 THEN "NULL"
    ELSE LET exact == {i \in 1..Len(mlu) : mlu[i].lang = lang /\ mlu[i].country = country}
             same  == {i \in 1..Len(mlu) : mlu[i].lang = lang}
         IN IF exact # {} THEN mlu[CHOOSE i \in exact : \A j \in exact : i <= j].text
            ELSE IF same # {} THEN mlu[CHOOSE i \in same : \A j \in same : i <= j].text
            ELSE mlu[1].text

\* clProfileGetMLU(C, profile, "desc", lang, country)
clProfileGetMLU(profile, lang, country) ==
    IF ~profile.handle.desc.present THEN "NULL"
    ELSE cmsMLUgetASCII(profile.handle.desc.mlu, lang, country)

\* clProfileSetMLU(C, profile, "desc", lang, country, ascii)
clProfileSetMLU(profile, lang, country, ascii) ==
    [profile EXCEPT !.handle.desc =
        [present |-> TRUE, mlu |-> <<[lang |-> lang, country |-> country, text |-> ascii]>>]]

\* clProfileParse returning NULL without freeing the clProfile struct
clProfileParse_KeepStruct(icc, description) ==
    IF ~icc.valid
    THEN [profile |-> NullProfile, allocs |-> 1]
    ELSE With([null |-> FALSE, description |-> "NULL", handle |-> icc], LAMBDA profile :
           [profile |-> [profile EXCEPT !.description =
                            IF description # "NULL" THEN description
                            ELSE IF clProfileGetMLU(profile, "en", "US") # "NULL"
                                 THEN clProfileGetMLU(profile, "en", "US")
                                 ELSE "Unknown"],
            allocs  |-> 1])

\* clProfileParse(C, icc, iccLen, description): icc is the handle
\* cmsOpenProfileFromMemTHR returns for the bytes (NullHandle when it rejects
\* them); description is "NULL" or the caller's text.  allocs counts the
\* clProfile structs allocated and not freed.
clProfileParse(icc, description) ==
    IF ~icc.valid
    THEN [profile |-> NullProfile, allocs |-> 0]   \* clFree(profile)
    ELSE With([null |-> FALSE, description |-> "NULL", handle |-> icc], LAMBDA profile :
           [profile |-> [profile EXCEPT !.description =
                            IF description # "NULL" THEN description
                            ELSE IF clProfileGetMLU(profile, "en", "US") # "NULL"
                                 THEN clProfileGetMLU(profile, "en", "US")
                                 ELSE "Unknown"],
            allocs  |-> 1])

\* cmsCreateRGBProfileTHR(C->lcms, whitePoint, primaries, curves) with the
\* curves cmsBuildGamma(gamma) gives; failed stands for lcms refusing
cmsCreateRGBProfileTHR(primaries, gamma, failed) ==
    IF failed THEN NullHandle
    ELSE [valid |-> TRUE, wtpt |-> TRUE, rXYZ |-> TRUE, gXYZ |-> TRUE, bXYZ |-> TRUE,
          prim |-> primaries,
          a2b0 |-> [size |-> 0, matrixOffset |-> 0, matrixCurveOffset |-> 0,
                    curve |-> [para |-> -1, g |-> F32Zero, a |-> F32Zero], prim |-> "NONE"],
          rTRC |-> [present |-> TRUE, type |-> 1, gamma |-> gamma],
          lumi |-> NoTag, desc |-> NoTag]

\* clProfileCreate without the luminance tag
clProfileCreate_NoLumi(primaries, curve, maxLuminance, description, failed) ==
    With(cmsCreateRGBProfileTHR(primaries, curve.gamma, failed), LAMBDA handle :
        IF ~handle.valid THEN [profile |-> NullProfile, allocs |-> 0]
        ELSE With([null |-> FALSE, description |-> description, handle |-> handle],
                  LAMBDA profile :
                [profile |-> IF profile.description # "NULL"
                             THEN clProfileSetMLU(profile, "en", "US", profile.description)
                             ELSE profile,
                 allocs  |-> 1]))

\* clProfileCreate(C, primaries, curve, maxLuminance, description)
clProfileCreate(primaries, curve, maxLuminance, description, failed) ==
    With(cmsCreateRGBProfileTHR(primaries, curve.gamma, failed), LAMBDA handle :
        IF ~handle.valid THEN [profile |-> NullProfile, allocs |-> 0]   \* clFree(profile)
        ELSE With([null |-> FALSE, description |-> description,
                   handle |-> [handle EXCEPT
                                  !.lumi = [present |-> TRUE, y2 |-> DoubleOfInt(maxLuminance)]]],
                  LAMBDA profile :
                [profile |-> IF profile.description # "NULL"
                             THEN clProfileSetMLU(profile, "en", "US", profile.description)
                             ELSE profile,
                 allocs  |-> 1]))

\* clProfileSetLuminance(C, profile, luminance)
clProfileSetLuminance(profile, luminance) ==
    [profile EXCEPT !.handle.lumi = [present |-> TRUE, y2 |-> DoubleOfInt(luminance)]]

\* The primaries part of clProfileQuery: [st, primaries], st being "ok",
\* "false" (return clFalse) or "trap".  tmpColorants is never assigned when a
\* colorant is missing and the A2B0 tag is shorter than 32 bytes ("UNINIT");
\* a matrix that passes the room check and still ends after the tag is read
\* from outside the allocation: the read traps or yields what lies there
\* ("OUTSIDE"), as oob says
QueryPrimaries(h, oob) ==
    IF ~h.wtpt THEN [st |-> "false", primaries |-> "UNSET"]
    ELSE IF ~h.rXYZ \/ ~h.gXYZ \/ ~h.bXYZ
    THEN (IF h.a2b0.size >= 32
          THEN (IF h.a2b0.matrixOffset = 0 THEN [st |-> "false", primaries |-> "UNSET"]
                ELSE IF h.a2b0.matrixOffset + 18 > h.a2b0.size
                THEN [st |-> "false", primaries |-> "UNSET"]
                ELSE IF h.a2b0.matrixOffset + 36 > h.a2b0.size
                THEN (IF oob = "trap" THEN [st |-> "trap", primaries |-> "UNSET"]
                      ELSE [st |-> "ok", primaries |-> "OUTSIDE"])
                ELSE [st |-> "ok", primaries |-> h.a2b0.prim])
          ELSE [st |-> "ok", primaries |-> "UNINIT"])
    ELSE [st |-> "ok", primaries |-> h.prim]

\* cmsEstimateGamma(toneCurve, 1.0f) of a curve built from one gamma
cmsEstimateGamma(toneCurve) == toneCurve.gamma

\* curve->type, curve->gamma and the zeroed curve->matrixCurveScale; scale
\* says where matrixCurveScale comes from
QueryToneCurve(h) ==
    IF h.rTRC.present
    THEN [set |-> TRUE, type |-> IF h.rTRC.type = 1 THEN CL_PCT_GAMMA ELSE CL_PCT_COMPLEX,
          gamma |-> cmsEstimateGamma(h.rTRC), matrixCurveScale |-> F32Zero, scale |-> "zero"]
    ELSE IF h.a2b0.size > 0
    THEN [set |-> TRUE, type |-> CL_PCT_COMPLEX, gamma |-> F32Neg(F32One),
          matrixCurveScale |-> F32Zero, scale |-> "zero"]
    ELSE [set |-> TRUE, type |-> CL_PCT_UNKNOWN, gamma |-> F32Zero,
          matrixCurveScale |-> F32Zero, scale |-> "zero"]

\* The curve part of clProfileQuery: [st, curve].  An offset past the tag's
\* end is read from outside the allocation
QueryCurve(h, oob) ==
    IF h.a2b0.size >= 32
    THEN (IF h.a2b0.matrixCurveOffset = 0
          THEN [st |-> "false", curve |-> QueryToneCurve(h)]
          ELSE IF h.a2b0.matrixCurveOffset + 4 > h.a2b0.size
          THEN (IF oob = "trap" THEN [st |-> "trap", curve |-> QueryToneCurve(h)]
                ELSE [st |-> "ok", curve |-> [QueryToneCurve(h) EXCEPT !.scale = "OUTSIDE"]])
          ELSE IF h.a2b0.curve.para > 0 /\ h.a2b0.curve.para <= 4
          THEN [st |-> "ok",
                curve |-> [QueryToneCurve(h) EXCEPT
                              !.matrixCurveScale = F32Pow(h.a2b0.curve.a, h.a2b0.curve.g),
                              !.scale = "para"]]
          ELSE [st |-> "ok", curve |-> QueryToneCurve(h)])
    ELSE [st |-> "ok", curve |-> QueryToneCurve(h)]

\* The luminance part of clProfileQuery
QueryLuminance(h) ==
    [set |-> TRUE, value |-> IF h.lumi.present THEN IntOfDouble(h.lumi.y2) ELSE 0]

UnsetCurve == [set |-> FALSE]
UnsetInt   == [set |-> FALSE]

\* clProfileQuery(C, profile, primaries, curve, luminance) on the tags: the
\* three want flags say which output pointers are not NULL.  The result is
\* [ret, primaries, curve, luminance]; ret is "true", "false" or "trap", and
\* an output the call did not write is unset
clProfileQueryTags(profile, wantPrimaries, wantCurve, wantLuminance, oob) ==
    With(IF wantPrimaries THEN QueryPrimaries(profile.handle, oob)
         ELSE [st |-> "ok", primaries |-> "UNSET"], LAMBDA p :
      IF p.st # "ok"
      THEN [ret |-> p.st, primaries |-> p.primaries, curve |-> UnsetCurve, luminance |-> UnsetInt]
      ELSE With(IF wantCurve THEN QueryCurve(profile.handle, oob)
                ELSE [st |-> "ok", curve |-> UnsetCurve], LAMBDA c :
             IF c.st # "ok"
             THEN [ret |-> c.st, primaries |-> p.primaries, curve |-> c.curve,
                   luminance |-> UnsetInt]
             ELSE [ret |-> "true", primaries |-> p.primaries, curve |-> c.curve,
                   luminance |-> IF wantLuminance THEN QueryLuminance(profile.handle)
                                 ELSE UnsetInt]))

\* clProfileCreateLinear(C, origProfile): [profile, allocs, trap]
clProfileCreateLinear(origProfile, oob, failed) ==
    With(clProfileQueryTags(origProfile, TRUE, FALSE, TRUE, oob), LAMBDA q :
      IF q.ret # "true" THEN [profile |-> NullProfile, allocs |-> 0, trap |-> q.ret = "trap"]
      ELSE With(clProfileCreate(q.primaries, [type |-> CL_PCT_GAMMA, gamma |-> F32One],
                                q.luminance.value,
                                IF origProfile.description # "NULL"
                                THEN origProfile.description \o " (Linear)"
                                ELSE " (Linear)",
                                failed), LAMBDA r :
             [profile |-> r.profile, allocs |-> r.allocs, trap |-> FALSE]))

(***************************************************************************)
(* The profile operations as a state machine over prof.                    *)
(***************************************************************************)
MaxProfOps == 3   \* profile operations in one behaviour

\* maxLuminance and luminance arguments
LumSamples == {1, 300, 32768, 100000}

\* raw A2B0 tags: none, one shorter than 32 bytes, and 128-byte tags with
\* the matrix and the matrix curve absent (offset 0), inside the tag, or
\* reaching past its end
A2B0Tag(size, matrixOffset, matrixCurveOffset, para) ==
    [size |-> size, matrixOffset |-> matrixOffset, matrixCurveOffset |-> matrixCurveOffset,
     curve |-> [para |-> para, g |-> F32Two, a |-> F32Two], prim |-> "P2020"]

A2B0Samples ==
    { A2B0Tag(0, 0, 0, -1), A2B0Tag(16, 0, 0, -1),
      A2B0Tag(128, 32, 80, 1), A2B0Tag(128, 32, 0, -1), A2B0Tag(128, 0, 80, 0),
      A2B0Tag(128, 100, 80, -1), A2B0Tag(128, 120, 126, 1) }

DescSamples ==
    { NoTag,
      [present |-> TRUE, mlu |-> <<>>],
      [present |-> TRUE, mlu |-> <<[lang |-> "en", country |-> "US", text |-> "Display"]>>],
      [present |-> TRUE, mlu |-> <<[lang |-> "fr", country |-> "FR", text |-> "Ecran"],
                                   [lang |-> "en", country |-> "US", text |-> "Display"]>>],
      [present |-> TRUE, mlu |-> <<[lang |-> "fr", country |-> "FR", text |-> "Ecran"]>>],
      [present |-> TRUE, mlu |-> <<[lang |-> "fr", country |-> "FR", text |-> "Ecran"],
                                   [lang |-> "en", country |-> "GB", text |-> "Monitor"]>>] }

IccHandle(w, r, a, t, l, d) ==
    [valid |-> TRUE, wtpt |-> w, rXYZ |-> r, gXYZ |-> TRUE, bXYZ |-> TRUE, prim |-> "P709",
     a2b0 |-> a, rTRC |-> t, lumi |-> l, desc |-> d]

GammaTag == [present |-> TRUE, type |-> 1, gamma |-> F32Gamma24]
LumiTag  == [present |-> TRUE, y2 |-> 201]
DescTag  == [present |-> TRUE, mlu |-> <<[lang |-> "en", country |-> "US", text |-> "Display"]>>]

\* what cmsOpenProfileFromMemTHR makes of the bytes handed to clProfileParse:
\* rejected bytes, profiles varying in the tags clProfileQuery reads, and
\* profiles varying in their desc tag
IccSamples ==
    {NullHandle}
    \cup { IccHandle(w, r, a, t, l, DescTag) :
              w \in BOOLEAN, r \in BOOLEAN, a \in A2B0Samples, t \in {NoTag, GammaTag},
              l \in {NoTag, LumiTag} }
    \cup { IccHandle(TRUE, r, A2B0Tag(0, 0, 0, -1), GammaTag, LumiTag, d) :
              r \in BOOLEAN, d \in DescSamples }

\* the variables of the transform, which the profile operations leave alone
XformVars == <<C, transform, srcPixels, dstPixels, pixelCount, ub, pc, taskCount, useCCMM,
               loopI, infos, tasks, heap, runs, dstAtStart, prevOut, log>>

ProfCanStep == prof.ops < MaxProfOps /\ prof.op # "trapped"

\* clProfileParse(C, icc, iccLen, description)
ParseProfile ==
    /\ ProfCanStep
    /\ prof.cur.null
    /\ \E icc \in IccSamples, description \in {"NULL", "Caller"} :
          \E r \in {clProfileParse(icc, description)} :
             prof' = [prof EXCEPT !.cur = r.profile, !.allocs = @ + r.allocs,
                                  !.res = [ret |-> "none"], !.op = "parse",
                                  !.arg = [icc |-> icc, description |-> description],
                                  !.ops = @ + 1]
    /\ UNCHANGED <<io, lcms, pq, XformVars>>

\* clProfileCreate(C, primaries, curve, maxLuminance, description)
CreateProfile ==
    /\ ProfCanStep
    /\ prof.cur.null
    /\ \E primaries \in {"P709", "P2020"}, gamma \in {F32One, F32Gamma24},
          maxLuminance \in LumSamples, description \in {"NULL", "Made"} :
          \E r \in {clProfileCreate(primaries, [type |-> CL_PCT_GAMMA, gamma |-> gamma],
                                    maxLuminance, description, FALSE)} :
             prof' = [prof EXCEPT !.cur = r.profile, !.allocs = @ + r.allocs,
                                  !.res = [ret |-> "none"], !.op = "create",
                                  !.arg = [primaries |-> primaries, gamma |-> gamma,
                                           maxLuminance |-> maxLuminance,
                                           description |-> description],
                                  !.ops = @ + 1]
    /\ UNCHANGED <<io, lcms, pq, XformVars>>

\* clProfileSetLuminance(C, profile, luminance)
SetLuminance ==
    /\ ProfCanStep
    /\ ~prof.cur.null
    /\ \E luminance \in LumSamples \cup {0} :
          prof' = [prof EXCEPT !.cur = clProfileSetLuminance(prof.cur, luminance),
                               !.res = [ret |-> "none"], !.op = "setLuminance",
                               !.arg = [luminance |-> luminance],
                               !.ops = @ + 1]
    /\ UNCHANGED <<io, lcms, pq, XformVars>>

\* clProfileQuery(C, profile, primaries, curve, luminance)
QueryProfile ==
    /\ ProfCanStep
    /\ ~prof.cur.null
    /\ \E wantPrimaries \in BOOLEAN, wantCurve \in BOOLEAN, wantLuminance \in BOOLEAN,
          oob \in {"trap", "garbage"} :
          \E r \in {clProfileQueryTags(prof.cur, wantPrimaries, wantCurve, wantLuminance, oob)} :
             prof' = [prof EXCEPT !.res = r,
                                  !.op = IF r.ret = "trap" THEN "trapped" ELSE "query",
                                  !.arg = [wantPrimaries |-> wantPrimaries,
                                           wantCurve |-> wantCurve,
                                           wantLuminance |-> wantLuminance],
                                  !.ops = @ + 1]
    /\ UNCHANGED <<io, lcms, pq, XformVars>>

\* clProfileCreateLinear(C, origProfile); cmsCreateRGBProfileTHR may refuse
\* primaries that were never set
CreateLinear ==
    /\ ProfCanStep
    /\ ~prof.cur.null
    /\ prof.orig.null
    /\ \E oob \in {"trap", "garbage"}, failed \in BOOLEAN :
          /\ failed => QueryPrimaries(prof.cur.handle, oob).primaries \in {"UNINIT", "OUTSIDE"}
          /\ \E r \in {clProfileCreateLinear(prof.cur, oob, failed)} :
                prof' = [prof EXCEPT !.cur = r.profile, !.orig = prof.cur,
                                     !.allocs = @ + r.allocs,
                                     !.res = [ret |-> "none"],
                                     !.op = IF r.trap THEN "trapped" ELSE "linear",
                                     !.arg = [orig |-> prof.cur],
                                     !.ops = @ + 1]
    /\ UNCHANGED <<io, lcms, pq, XformVars>>

InitProf ==
    /\ C = [ccmmAllowed |-> TRUE]
    /\ ub = CHOOSE u \in UBChoices : TRUE
    /\ pixelCount = 0
    /\ transform = clTransformCreate("bt709", CL_XF_RGBA, 8, "bt709b", CL_XF_RGBA, 8)
    /\ srcPixels = <<>>
    /\ dstPixels = <<>>
    /\ prof = ProfNone
    /\ pq = PQNone
    /\ lcms = LcmsNone
    /\ io = IoNone
    /\ pc = "idle"
    /\ taskCount = 0
    /\ useCCMM = FALSE
    /\ loopI = 0
    /\ infos = <<>>
    /\ tasks = <<>>
    /\ heap = [tasks |-> FALSE, infos |-> FALSE]
    /\ runs = 0
    /\ dstAtStart = dstPixels
    /\ prevOut = <<>>
    /\ log = [wr |-> {}, created |-> 0, uaf |-> FALSE, tc |-> 0, prevTc |-> 0]

NextProf ==
    \/ ParseProfile
    \/ CreateProfile
    \/ SetLuminance
    \/ QueryProfile
    \/ CreateLinear

SpecProf == InitProf /\ [][NextProf]_vars

(***************************************************************************)
(* Properties of the profile operations.                                   *)
(***************************************************************************)
\* the last operation was a clProfileQuery, on prof.cur, with outputs prof.res
Queried == prof.res.ret \in {"true", "false", "trap"}

MissingColorant(h) == ~h.rXYZ \/ ~h.gXYZ \/ ~h.bXYZ

\* no matrix can be recovered from the A2B0 tag: the tag is absent or shorter
\* than 32 bytes, its matrix offset is 0, or its nine matrix entries do not
\* lie inside the tag
NoA2B0Matrix(h) ==
    \/ h.a2b0.size < 32
    \/ h.a2b0.matrixOffset = 0
    \/ h.a2b0.matrixOffset + 36 > h.a2b0.size

\* C14: clProfileQuery with primaries requested returns false when wtpt is
\* missing, and when a colorant is missing and no matrix can be recovered
\* from A2B0; it never returns true with primaries computed from colorants
\* that were never set
C14_QueryFailsWithoutColorants ==
    (Queried /\ prof.arg.wantPrimaries) =>
        /\ ~prof.cur.handle.wtpt => (prof.res.ret = "false")
        /\ (MissingColorant(prof.cur.handle) /\ NoA2B0Matrix(prof.cur.handle)) =>
              (prof.res.ret = "false")
        /\ (prof.res.ret = "true") => (prof.res.primaries \notin {"UNINIT", "OUTSIDE"})

\* the primaries part of the last query, if any, went through
PrimariesPartPassed ==
    prof.arg.wantPrimaries =>
        (prof.cur.handle.wtpt /\ ~MissingColorant(prof.cur.handle))

\* C15: when the A2B0 tag has a matrix-curve offset of 0, clProfileQuery
\* with a curve requested reports matrix curve scale 0, still returns true,
\* and still reports the luminance when it is requested in the same call
C15_NoMatrixCurveIsAbsent ==
    (/\ Queried /\ prof.arg.wantCurve /\ PrimariesPartPassed
     /\ prof.cur.handle.a2b0.size >= 32
     /\ prof.cur.handle.a2b0.matrixCurveOffset = 0) =>
        /\ prof.res.ret = "true"
        /\ prof.res.curve.set /\ prof.res.curve.matrixCurveScale = F32Zero
        /\ prof.arg.wantLuminance =>
              (prof.res.luminance = QueryLuminance(prof.cur.handle))

\* the last operation was a clProfileParse of prof.arg.icc
Parsed == prof.op = "parse"

\* the texts of the embedded desc entries of that language (and country)
DescTexts(icc, lang) ==
    IF ~icc.desc.present THEN <<>>
    ELSE SelectSeq(icc.desc.mlu, LAMBDA e : e.lang = lang)

DescTextsOf(icc, lang, country) ==
    IF ~icc.desc.present THEN <<>>
    ELSE SelectSeq(icc.desc.mlu, LAMBDA e : e.lang = lang /\ e.country = country)

\* the description of a parsed profile: the caller's when one is given, else
\* the en-US entry of the embedded desc, else another entry of it (one in
\* English first, else the first entry), else "Unknown"
C16_Description ==
    Parsed =>
        IF ~prof.arg.icc.valid THEN prof.cur.null
        ELSE /\ ~prof.cur.null
             /\ prof.cur.description # "NULL"
             /\ prof.cur.description =
                   IF prof.arg.description # "NULL" THEN prof.arg.description
                   ELSE IF DescTextsOf(prof.arg.icc, "en", "US") # <<>>
                        THEN DescTextsOf(prof.arg.icc, "en", "US")[1].text
                   ELSE IF DescTexts(prof.arg.icc, "en") # <<>>
                        THEN DescTexts(prof.arg.icc, "en")[1].text
                   ELSE IF prof.arg.icc.desc.present /\ prof.arg.icc.desc.mlu # <<>>
                        THEN prof.arg.icc.desc.mlu[1].text
                   ELSE "Unknown"

C17_NoLumiIsZero ==
    (Queried /\ prof.arg.wantLuminance /\ prof.res.ret = "true"
       /\ ~prof.cur.handle.lumi.present) =>
        (prof.res.luminance = [set |-> TRUE, value |-> 0])

\* C17: clProfileQuery on a profile built by clProfileCreate with
\* maxLuminance L reports luminance L; clProfileSetLuminance(n) followed by
\* a query reports n; a profile without a lumi tag reports luminance 0
C17_LuminanceRoundTrip ==
    /\ []C17_NoLumiIsZero
    /\ [][(prof.op = "create" /\ prof'.op = "query" /\ prof'.arg.wantLuminance) =>
              (/\ prof'.res.ret = "true"
               /\ prof'.res.luminance = [set |-> TRUE, value |-> prof.arg.maxLuminance])]_vars
    /\ [][(prof.op = "setLuminance" /\ prof'.op = "query" /\ prof'.arg.wantLuminance
             /\ prof'.res.ret = "true") =>
              (prof'.res.luminance = [set |-> TRUE, value |-> prof.arg.luminance])]_vars

C17_Witness ==
    /\ Queried /\ prof.ops = 2 /\ prof.arg.wantLuminance
    /\ prof.cur.description = "Made"
    /\ prof.res.ret = "true"
    /\ prof.res.luminance = [set |-> TRUE, value |-> 100000]

\* the last operation was a clProfileCreateLinear that returned: prof.arg.orig
\* is the original before the call, prof.orig after it, prof.cur the result
Linearized == prof.op = "linear"

\* clProfileQuery for primaries cannot succeed on these tags
CannotQuery(h) == ~h.wtpt \/ (MissingColorant(h) /\ NoA2B0Matrix(h))

\* C18: clProfileCreateLinear returns null when the original profile cannot
\* be queried; otherwise the new profile carries the original's queried
\* primaries and luminance, a gamma curve of exactly 1.0 and the original's
\* description followed by " (Linear)", and the original is left unchanged
C18_CreateLinear ==
    Linearized =>
        /\ prof.orig = prof.arg.orig
        /\ IF CannotQuery(prof.orig.handle) THEN prof.cur.null
           ELSE /\ ~prof.cur.null
                /\ prof.cur.handle.prim =
                      IF MissingColorant(prof.orig.handle) THEN prof.orig.handle.a2b0.prim
                      ELSE prof.orig.handle.prim
                /\ prof.cur.handle.lumi =
                      [present |-> TRUE,
                       y2 |-> 2 * (IF prof.orig.handle.lumi.present
                                   THEN IntOfDouble(prof.orig.handle.lumi.y2) ELSE 0)]
                /\ prof.cur.handle.rTRC = [present |-> TRUE, type |-> 1, gamma |-> F32One]
                /\ prof.cur.description =
                      IF prof.orig.description = "NULL" THEN " (Linear)"
                      ELSE prof.orig.description \o " (Linear)"

\* pixel p of the destination as the built-in converter leaves it when it is
\* run on source pixel p alone
ConvertedAlone(p) ==
    clCCMMTransform(transform, SrcPixelAt(p), 0,
                    SubSeq(dstAtStart, p * DstChannels + 1, (p + 1) * DstChannels), 0, 0, ub).mem

\* C20: a run of any conversion routine of clCCMMTransform writes every
\* destination pixel i of the range, and writes it from source pixel i alone,
\* whatever the other pixels are: integer sources converted to float
\* destinations on the transform path included
C20_PixelwiseConversion ==
    (pc = "returned" /\ useCCMM /\ CCMMRoutine(transform).path # "FAILURE") =>
        /\ log.wr = 1..(pixelCount * DstChannels)
        /\ \A p \in 0..(pixelCount - 1) : DstPixelAt(p) = ConvertedAlone(p)

\* the three COLORIST_ASSERTs at the entry of clCCMMTransform pass
EntryAssertions ==
    /\ transform.srcProfile = "NULL" \/ ProfileTable[transform.srcProfile].ccmm
    /\ transform.dstProfile = "NULL" \/ ProfileTable[transform.dstProfile].ccmm
    /\ transform.ccmmReady

\* worker k is inside clCCMMTransform
WorkerInCCMM(k) == k \in DOMAIN tasks /\ tasks[k].st = "running" /\ infos[k].useCCMM

C21_AssertionsPass ==
    /\ \A k \in 1..MaxTasks : WorkerInCCMM(k) => EntryAssertions
    /\ (useCCMM /\ pc \in {"creating", "joining", "joined", "returned"}) => EntryAssertions

\* C21: whenever clCCMMTransform is entered, by a worker or inline, the
\* transform is prepared and each non-null profile supports the built-in
\* converter; preparation is finished before the first worker of a run
\* starts, and the transform is not touched while a worker runs
C21_PreparedBeforeWorkers ==
    /\ []C21_AssertionsPass
    /\ [][(useCCMM /\ tasks = <<>> /\ tasks' # <<>>) => transform.ccmmReady]_vars
    /\ [][(\E k \in DOMAIN tasks : tasks[k].st = "running") => (transform' = transform)]_vars

C21_Witness ==
    /\ pc = "joining" /\ runs = 2
    /\ \E k \in 1..MaxTasks : WorkerInCCMM(k) /\ tasks[k].i >= 1

(***************************************************************************)
(* The dispatch of clCCMMTransform alone: one prepared transform per pair  *)
(* of layouts, called on the calling thread over one pixel.                *)
(***************************************************************************)
DepthSamples == {1, 7, 8, 10, 12, 16, 17, 31, 32}

FormatsDispatch == { <<f, d>> : f \in {CL_XF_XYZ, CL_XF_RGB, CL_XF_RGBA}, d \in DepthSamples }

ProfilePairsDispatch == { <<"bt709", "bt709b">>, <<"bt709", "bt2020">> }

InitDispatch ==
    /\ C = [ccmmAllowed |-> TRUE]
    /\ ub = CHOOSE u \in UBChoices : TRUE
    /\ pixelCount = 1
    /\ \E sf \in FormatsDispatch, df \in FormatsDispatch, pp \in ProfilePairsDispatch :
          /\ transform = clTransformCreate(pp[1], sf[1], sf[2], pp[2], df[1], df[2])
          /\ srcPixels = SourceBuffer(sf[1], sf[2], pixelCount, 0)
          /\ dstPixels = StaleBuffer(df[1], df[2], pixelCount)
    /\ prof = ProfNone
    /\ pq = PQNone
    /\ lcms = LcmsNone
    /\ io = IoNone
    /\ pc = "idle"
    /\ taskCount = 0
    /\ useCCMM = FALSE
    /\ loopI = 0
    /\ infos = <<>>
    /\ tasks = <<>>
    /\ heap = [tasks |-> FALSE, infos |-> FALSE]
    /\ runs = 0
    /\ dstAtStart = dstPixels
    /\ prevOut = <<>>
    /\ log = [wr |-> {}, created |-> 0, uaf |-> FALSE, tc |-> 0, prevTc |-> 0]

\* clCCMMTransform(C, transform, srcPixels, dstPixels, 1) on a prepared
\* transform: the selected routine runs, or COLORIST_FAILURE is reached
CallCCMM ==
    /\ pc = "idle"
    /\ transform.ccmmReady
    /\ useCCMM' = TRUE
    /\ IF CCMMRoutine(transform).path = "FAILURE"
       THEN /\ pc' = "failed"
            /\ UNCHANGED <<dstPixels, log>>
       ELSE \E r \in {clCCMMTransform(transform, srcPixels, 0, dstPixels, 0, 0, ub)} :
               /\ dstPixels' = r.mem
               /\ log' = [log EXCEPT !.wr = r.wr]
               /\ pc' = "returned"
    /\ UNCHANGED <<io, lcms, pq, prof, C, transform, srcPixels, pixelCount, ub, taskCount, loopI, infos,
                   tasks, heap, runs, dstAtStart, prevOut>>

NextDispatch ==
    \/ Prepare
    \/ CallCCMM

SpecDispatch == InitDispatch /\ [][NextDispatch]_vars

\* float, 8-bit or 16-bit packed; "Other" for any other integer depth
Side(format, depth) ==
    IF depth = 32 \/ format = CL_XF_XYZ THEN "Float"
    ELSE IF depth = 8 THEN "RGB8"
    ELSE IF depth \in 9..16 THEN "RGB16"
    ELSE "Other"

\* C22: when each side is float (depth 32, or XYZ at any depth), 8-bit or
\* 16-bit packed (depth 9..16), clCCMMTransform runs the one routine of that
\* pair of layouts, a reformat routine iff the profiles match and a transform
\* routine otherwise; an integer side of any other depth reaches the fatal
\* failure and no routine runs
C22_Dispatch ==
    pc \in {"returned", "failed"} =>
        LET s == Side(transform.srcFormat, transform.srcDepth)
            d == Side(transform.dstFormat, transform.dstDepth)
        IN IF s # "Other" /\ d # "Other"
           THEN /\ pc = "returned"
                /\ CCMMRoutine(transform) =
                      [path |-> IF clProfileMatches(transform.srcProfile, transform.dstProfile)
                                THEN "reformat" ELSE "transform",
                       kind |-> s \o "To" \o d]
                /\ log.wr = 1..DstChannels
           ELSE /\ pc = "failed"
                /\ log.wr = {}
                /\ dstPixels = dstAtStart

C22_Witness ==
    /\ pc = "failed"
    /\ transform.srcFormat = CL_XF_RGB /\ transform.srcDepth = 17
    /\ transform.dstFormat = CL_XF_XYZ /\ transform.dstDepth = 7

(***************************************************************************)
(* Preparation alone: one transform per pair of profiles, the null profile *)
(* included, prepared by a direct call of clTransformPrepare.              *)
(***************************************************************************)
InitPrepare ==
    /\ C = [ccmmAllowed |-> TRUE]
    /\ ub \in UBChoices
    /\ pixelCount = 0
    /\ \E sp \in ProfileNames \cup {"NULL"}, dp \in ProfileNames \cup {"NULL"} :
          transform = clTransformCreate(sp, CL_XF_RGBA, 8, dp, CL_XF_RGBA, 8)
    /\ srcPixels = <<>>
    /\ dstPixels = <<>>
    /\ prof = ProfNone
    /\ pq = PQNone
    /\ lcms = LcmsNone
    /\ io = IoNone
    /\ pc = "idle"
    /\ taskCount = 0
    /\ useCCMM = FALSE
    /\ loopI = 0
    /\ infos = <<>>
    /\ tasks = <<>>
    /\ heap = [tasks |-> FALSE, infos |-> FALSE]
    /\ runs = 0
    /\ dstAtStart = <<>>
    /\ prevOut = <<>>
    /\ log = [wr |-> {}, created |-> 0, uaf |-> FALSE, tc |-> 0, prevTc |-> 0]

NextPrepare == Prepare

SpecPrepare == InitPrepare /\ [][NextPrepare]_vars

\* the transfer function and gamma the claim gives for a profile
XtfOf(profile) ==
    IF profile = "NULL" THEN [xtf |-> CL_XTF_NONE, gamma |-> F32Zero]
    ELSE IF ProfileTable[profile].pq THEN [xtf |-> CL_XTF_PQ, gamma |-> F32Zero]
    ELSE [xtf |-> CL_XTF_GAMMA, gamma |-> ProfileTable[profile].gamma]

\* the profile is null, has a PQ signature, or can be queried
Derivable(profile) ==
    profile = "NULL" \/ ProfileTable[profile].pq \/ ProfileTable[profile].queryable

\* the prepared fields of the transform are those of a fresh transform of the
\* same profiles, whatever uninitialised memory holds
FunctionOfProfiles ==
    \A u \in UBChoices :
        PreparedFields(transform) =
            PreparedFields(clTransformPrepare(
                clTransformCreate(transform.srcProfile, transform.srcFormat, transform.srcDepth,
                                  transform.dstProfile, transform.dstFormat, transform.dstDepth),
                u.garbage))

PreparedCases ==
    /\ deriveXYZMatrixAndXTF("NULL", GarbageMat(ub.garbage), CL_XTF_GAMMA, F32One).toXYZ
          = gb_mat3_identity
    /\ (transform.srcProfile = "NULL" /\ transform.dstProfile = "NULL") =>
          transform.matSrcToDst = gb_mat3_identity
    /\ Derivable(transform.srcProfile) =>
          /\ transform.srcEOTF = XtfOf(transform.srcProfile).xtf
          /\ transform.srcGamma = XtfOf(transform.srcProfile).gamma
    /\ Derivable(transform.dstProfile) =>
          /\ transform.dstOETF = XtfOf(transform.dstProfile).xtf
          /\ transform.dstInvGamma =
                IF transform.dstOETF = CL_XTF_GAMMA /\ XtfOf(transform.dstProfile).gamma # F32Zero
                THEN F32Div(F32One, XtfOf(transform.dstProfile).gamma)
                ELSE XtfOf(transform.dstProfile).gamma

\* C23: after clTransformPrepare the prepared state is a function of the two
\* profiles: None, gamma 0 and the identity for a null profile, PQ with gamma
\* 0 for a PQ signature, Gamma with the queried gamma otherwise; dstInvGamma
\* is the reciprocal of a non-zero destination gamma, srcGamma is not inverted
C23_PreparedState == transform.ccmmReady => (FunctionOfProfiles /\ PreparedCases)

(***************************************************************************)
\* the engine objects a transform owns are accounted for: while the transform
\* lives, each handle it holds was created by exactly one call and none was
\* released; once destroyed, every object created was released exactly once
EngineAccounts ==
    /\ lcms.created <= 1
    /\ lcms.xyzCreated <= 1
    /\ lcms.profilesClosed = 0
    /\ IF pc = "destroyed"
       THEN lcms.deleted = lcms.created /\ lcms.xyzClosed = lcms.xyzCreated
       ELSE /\ lcms.deleted = 0 /\ lcms.xyzClosed = 0
            /\ lcms.created = (IF transform.hTransform = "NULL" THEN 0 ELSE 1)
            /\ lcms.xyzCreated = (IF transform.xyzProfile = "NULL" THEN 0 ELSE 1)

\* C24: on the external-engine path, over any number of clTransformRun calls
\* the engine handle and the synthetic XYZ profile are each created at most
\* once (also when both profiles are null); clTransformDestroy releases each
\* exactly once if it was created, and no step closes or changes the borrowed
\* source and destination profiles
C24_EngineLifetime ==
    /\ []EngineAccounts
    /\ [][/\ transform'.srcProfile = transform.srcProfile
          /\ transform'.dstProfile = transform.dstProfile]_vars

C24_Witness ==
    /\ pc = "destroyed" /\ runs = 2 /\ ~useCCMM
    /\ transform.srcProfile = "NULL" /\ transform.dstProfile = "NULL"
    /\ lcms.created = 1 /\ lcms.xyzCreated = 1
    /\ lcms.deleted = 1 /\ lcms.xyzClosed = 1

(***************************************************************************)
\* the byte ranges <<from, to>> (to excluded) of rawA2B0 that the matrix
\* harvest of clProfileQuery reads: the offset field, then the nine entries
\* when the offset is not 0 and passes the room test
MatrixReads(a) ==
    IF a.size < 32 THEN {}
    ELSE {<<16, 20>>}
         \cup (IF a.matrixOffset = 0 \/ a.matrixOffset + 18 > a.size THEN {}
               ELSE { <<a.matrixOffset + (i * 4), a.matrixOffset + (i * 4) + 4>> : i \in 0..8 })

\* the ranges the matrix curve part reads: the offset field, the signature,
\* the curve type of a 'para' curve, and g and a of the types 1 to 4
MatrixCurveReads(a) ==
    IF a.size < 32 THEN {}
    ELSE {<<20, 24>>}
         \cup (IF a.matrixCurveOffset = 0 THEN {}
               ELSE {<<a.matrixCurveOffset, a.matrixCurveOffset + 4>>}
                    \cup (IF a.curve.para < 0 THEN {}
                          ELSE {<<a.matrixCurveOffset + 8, a.matrixCurveOffset + 10>>}
                               \cup (IF a.curve.para > 0 /\ a.curve.para <= 4
                                     THEN {<<a.matrixCurveOffset + 12, a.matrixCurveOffset + 16>>,
                                           <<a.matrixCurveOffset + 16, a.matrixCurveOffset + 20>>}
                                     ELSE {})))

\* the ranges of the raw A2B0 tag that the last clProfileQuery read, or set
\* out to read when it trapped
A2B0Reads ==
    LET h == prof.cur.handle
        harvest == prof.arg.wantPrimaries /\ h.wtpt /\ MissingColorant(h)
        primariesPassed ==
            ~prof.arg.wantPrimaries \/ QueryPrimaries(h, "garbage").st = "ok"
    IN (IF harvest THEN MatrixReads(h.a2b0) ELSE {})
       \cup (IF prof.arg.wantCurve /\ primariesPassed THEN MatrixCurveReads(h.a2b0) ELSE {})

\* C26: while harvesting from the raw A2B0 tag, clProfileQuery reads no byte
\* at or beyond the tag's size: the nine matrix entries and the signature,
\* curve type, g and a of the matrix curve are read only when they lie
\* wholly inside the tag
C26_ReadsInsideTag ==
    (prof.op \in {"query", "trapped"}) =>
        /\ \A r \in A2B0Reads : r[2] <= prof.cur.handle.a2b0.size
        /\ prof.op # "trapped"

\* C27: clTransformRun with pixelCount = 0 and any taskCount >= 1 completes
\* without dividing by zero, creates no worker whose slice has a negative or
\* out-of-range pixel count, and writes nothing to the destination buffer
C27_EmptyRun ==
    (pixelCount = 0 /\ runs > 0) =>
        /\ pc # "crashed"
        /\ \A k \in DOMAIN infos :
              infos[k].pixelCount >= 0 /\ infos[k].pixelCount <= pixelCount
        /\ log.wr = {}
        /\ dstPixels = dstAtStart

(* The AVIF reader and writer (format_avif.c) as a state machine over io.  *)
(* An nclx colr box is [colourPrimaries, transferCharacteristics,          *)
(* matrixCoefficients, fullRangeFlag], its codes written by name.          *)
(***************************************************************************)
CL_PCT_HLG == "HLG"
CL_PCT_PQ  == "PQ"

CL_LUMINANCE_UNSPECIFIED == 0

\* 2.2f, 2.8f and 0.001f
F32Gamma22 == F32Lit(9227469, -22)
F32Gamma28 == F32Lit(11744051, -22)
F32Milli   == F32Lit(8589935, -33)

fabsf(x) == [x EXCEPT !.s = 0]

\* the chromaticities libavif keeps for a colour_primaries code
NclxPrimaries ==
    [BT709 |-> "P709", BT470BG |-> "P470BG", BT2020 |-> "P2020", SMPTE432 |-> "P432"]

\* avifNclxColourPrimariesGetValues(colourPrimaries, prim): the values of the
\* code, those of BT.709 for a code libavif does not know
avifNclxColourPrimariesGetValues(colourPrimaries) ==
    IF colourPrimaries \in DOMAIN NclxPrimaries THEN NclxPrimaries[colourPrimaries]
    ELSE NclxPrimaries["BT709"]

\* avifNclxColourPrimariesFind(floatPrimaries, &name)
avifNclxColourPrimariesFind(floatPrimaries) ==
    IF \E cp \in DOMAIN NclxPrimaries : NclxPrimaries[cp] = floatPrimaries
    THEN CHOOSE cp \in DOMAIN NclxPrimaries : NclxPrimaries[cp] = floatPrimaries
    ELSE "UNKNOWN"

\* the curve and maxLuminance nclxToclProfile picks for a transfer
\* characteristic
NclxCurve(transferCharacteristics) ==
    CASE transferCharacteristics = "BT2100_HLG" ->
            [type |-> CL_PCT_HLG, gamma |-> F32One, maxLuminance |-> CL_LUMINANCE_UNSPECIFIED]
      [] transferCharacteristics = "BT2100_PQ" ->
            [type |-> CL_PCT_PQ, gamma |-> F32One, maxLuminance |-> 10000]
      [] transferCharacteristics = "GAMMA22" ->
            [type |-> CL_PCT_GAMMA, gamma |-> F32Gamma22, maxLuminance |-> CL_LUMINANCE_UNSPECIFIED]
      [] transferCharacteristics = "GAMMA28" ->
            [type |-> CL_PCT_GAMMA, gamma |-> F32Gamma28, maxLuminance |-> CL_LUMINANCE_UNSPECIFIED]
      [] OTHER ->
            [type |-> CL_PCT_GAMMA, gamma |-> F32Gamma22, maxLuminance |-> CL_LUMINANCE_UNSPECIFIED]

\* nclxToclProfile(C, nclx)
nclxToclProfile(nclx) ==
    With(NclxCurve(nclx.transferCharacteristics), LAMBDA c :
        clProfileCreate(avifNclxColourPrimariesGetValues(nclx.colourPrimaries),
                        [type |-> c.type, gamma |-> c.gamma], c.maxLuminance,
                        "Generated", FALSE).profile)

NoNclx == [colourPrimaries |-> "UNKNOWN", transferCharacteristics |-> "UNKNOWN",
           matrixCoefficients |-> "UNSPECIFIED", fullRangeFlag |-> "UNSET"]

\* the transfer characteristic clProfileToNclx finds for a queried curve and
\* luminance: "BAIL" is its return clFalse for a luminance nclx cannot carry
NclxTransfer(curve, luminance) ==
    IF curve.type = CL_PCT_PQ /\ luminance = 10000 THEN "BT2100_PQ"
    ELSE IF luminance # CL_LUMINANCE_UNSPECIFIED THEN "BAIL"
    ELSE IF curve.type = CL_PCT_HLG THEN "BT2100_HLG"
    ELSE IF curve.type = CL_PCT_GAMMA
    THEN (IF F32Less(fabsf(F32Sub(curve.gamma, F32Gamma22)), F32Milli) THEN "GAMMA22"
          ELSE IF F32Less(fabsf(F32Sub(curve.gamma, F32Gamma28)), F32Milli) THEN "GAMMA28"
          ELSE "UNKNOWN")
    ELSE "UNKNOWN"

\* clProfileToNclx(C, profile, nclx): [ret, nclx]; ret is "true", "false" or
\* "trap" (clProfileQuery read outside the A2B0 tag and the read trapped)
clProfileToNclx(profile, oob) ==
    With(clProfileQueryTags(profile, TRUE, TRUE, TRUE, oob), LAMBDA q :
      IF q.ret # "true" THEN [ret |-> q.ret, nclx |-> NoNclx]
      ELSE With(avifNclxColourPrimariesFind(q.primaries), LAMBDA foundNclxPrimaries :
        IF foundNclxPrimaries = "UNKNOWN" THEN [ret |-> "false", nclx |-> NoNclx]
        ELSE With(NclxTransfer(q.curve, q.luminance.value), LAMBDA transferCharacteristics :
          IF transferCharacteristics \in {"BAIL", "UNKNOWN"}
          THEN [ret |-> "false", nclx |-> NoNclx]
          ELSE [ret |-> "true",
                nclx |-> [colourPrimaries |-> foundNclxPrimaries,
                          transferCharacteristics |-> transferCharacteristics,
                          matrixCoefficients |->
                              CASE foundNclxPrimaries = "BT709" -> "BT709"
                                [] foundNclxPrimaries = "BT2020" -> "BT2020_NCL"
                                [] OTHER -> "CHROMA_DERIVED_NCL",
                          fullRangeFlag |-> "FULL_RANGE"]])))

\* clProfilePack(C, profile, out): [ok, ptr]; saveOk is what
\* cmsSaveProfileToMem returns
clProfilePack(profile, saveOk) ==
    IF saveOk THEN [ok |-> TRUE, ptr |-> "ICC"] ELSE [ok |-> FALSE, ptr |-> "NULL"]

CL_CLAMP(x, low, high) == IF x < low THEN low ELSE IF x > high THEN high ELSE x

\* the quantizers with a quality of 0 taken as it is
EncoderQuantizers_ZeroKept(writeParams) ==
    IF writeParams.quantizerMin = -1 /\ writeParams.quantizerMax = -1
    THEN [minQuantizer |-> CL_CLAMP(64 - writeParams.quality, 0, 63),
          maxQuantizer |-> CL_CLAMP(100 - writeParams.quality, 0, 63)]
    ELSE [minQuantizer |-> writeParams.quantizerMin,
          maxQuantizer |-> writeParams.quantizerMax]

\* encoder->minQuantizer and encoder->maxQuantizer as clFormatWriteAVIF sets
\* them
EncoderQuantizers(writeParams) ==
    IF writeParams.quantizerMin = -1 /\ writeParams.quantizerMax = -1
    THEN With(IF writeParams.quality # 0 THEN writeParams.quality ELSE 100, LAMBDA quality :
            \* consider 0 to be lossless (100)
            [minQuantizer |-> CL_CLAMP(64 - quality, 0, 63),
             maxQuantizer |-> CL_CLAMP(100 - quality, 0, 63)])
    ELSE [minQuantizer |-> writeParams.quantizerMin,
          maxQuantizer |-> writeParams.quantizerMax]

NoEncoder == [minQuantizer |-> -1, maxQuantizer |-> -1]
NoColr    == [format |-> "none", nclx |-> NoNclx]

\* the label writeCleanup: made holds the locals initialised on the way
\* there, released those the cleanup hands to their free function.  The
\* encoder and the avif image are released when their pointers are set;
\* avifRWDataFree(&avifOutput) and clRawFree(C, &rawProfile) always run.  An
\* avifOutput whose declaration was jumped over holds what the stack held:
\* freeing it does nothing (garbage "null") or frees a wild pointer and traps
writeCleanup(writeResult, output, made, colr, encoder, garbage) ==
    [ret      |-> IF "avifOutput" \notin made /\ garbage = "wild" THEN "trap"
                  ELSE IF writeResult THEN "true" ELSE "false",
     output   |-> output,
     colr     |-> colr,
     encoder  |-> encoder,
     made     |-> made,
     released |-> (made \cap {"encoder", "avif"}) \cup {"avifOutput", "rawProfile"}]

YUVFormats == {"444", "422", "420", "YV12"}

\* clFormatWriteAVIF(C, image, formatName, output, writeParams).  env gives
\* what the collaborators answer: saveOk (cmsSaveProfileToMem), canEncode
\* (avifCodecName finds an encoder), encode (avifEncoderWrite: "ok", "error",
\* or "empty" for no data), oob and garbage (reads of memory never written)
clFormatWriteAVIF(image, output, writeParams, env) ==
    With(clProfilePack(image.profile, env.saveOk), LAMBDA rawProfile :
      IF ~rawProfile.ok
      THEN writeCleanup(FALSE, output, {"rawProfile"}, NoColr, NoEncoder, env.garbage)
      ELSE IF writeParams.yuvFormat \notin YUVFormats
      THEN writeCleanup(FALSE, output, {"rawProfile"}, NoColr, NoEncoder, env.garbage)
      ELSE With(IF writeParams.writeProfile
                THEN With(clProfileToNclx(image.profile, env.oob), LAMBDA r :
                        IF r.ret = "true" THEN [format |-> "nclx", nclx |-> r.nclx]
                        ELSE IF r.ret = "trap" THEN [format |-> "trap", nclx |-> NoNclx]
                        ELSE [format |-> rawProfile.ptr, nclx |-> NoNclx])
                ELSE NoColr, LAMBDA colr :
        IF colr.format = "trap"
        THEN [writeCleanup(FALSE, output, {"rawProfile", "avif"}, colr, NoEncoder, env.garbage)
                 EXCEPT !.ret = "trap", !.released = {}]
        ELSE IF ~env.canEncode
        THEN \* writeResult is still clTrue
             writeCleanup(TRUE, output, {"rawProfile", "avif", "avifOutput", "encoder"},
                          colr, NoEncoder, env.garbage)
        ELSE With(EncoderQuantizers(writeParams), LAMBDA encoder :
          IF env.encode = "error"
          THEN writeCleanup(FALSE, output, {"rawProfile", "avif", "avifOutput", "encoder"},
                            colr, encoder, env.garbage)
          ELSE IF env.encode = "empty"
          THEN writeCleanup(FALSE, output, {"rawProfile", "avif", "avifOutput", "encoder"},
                            colr, encoder, env.garbage)
          ELSE \* clRawSet(C, output, avifOutput.data, avifOutput.size)
               writeCleanup(TRUE, "AV1", {"rawProfile", "avif", "avifOutput", "encoder"},
                            colr, encoder, env.garbage))))

\* the colr box of the file read: an nclx box of known primaries with the
\* four transfer characteristics the reader maps and three it does not, or
\* an ICC blob (the tags clProfileQuery reads varying, no A2B0 tag)
ColrSamples ==
    { [format |-> "nclx",
       nclx |-> [colourPrimaries |-> cp, transferCharacteristics |-> tc,
                 matrixCoefficients |-> "UNSPECIFIED", fullRangeFlag |-> "FULL_RANGE"],
       icc |-> NullHandle] :
         cp \in DOMAIN NclxPrimaries,
         tc \in {"BT2100_HLG", "BT2100_PQ", "GAMMA22", "GAMMA28", "BT709", "SRGB", "LINEAR"} }
    \cup { [format |-> "icc", nclx |-> NoNclx, icc |-> h] :
              h \in {NullHandle}
                    \cup { IccHandle(w, TRUE, A2B0Tag(0, 0, 0, -1), t, l, DescTag) :
                              w \in BOOLEAN, t \in {NoTag, GammaTag}, l \in {NoTag, LumiTag} } }

NoImage == [null |-> TRUE, profile |-> NullProfile]

\* clFormatReadAVIF(C, formatName, overrideProfile, input): the image, with
\* the profile clImageCreate is handed.  dec is where the decoder stops: "ok",
\* or "codec", "parse", "frame" for its three failures
clFormatReadAVIF(colr, overrideProfile, dec) ==
    IF dec # "ok" THEN NoImage
    ELSE IF ~overrideProfile.null THEN [null |-> FALSE, profile |-> overrideProfile]
    ELSE IF colr.format = "nclx" THEN [null |-> FALSE, profile |-> nclxToclProfile(colr.nclx)]
    ELSE With(clProfileParse(colr.icc, "NULL").profile, LAMBDA profile :
            IF profile.null THEN NoImage     \* Failed parse ICC profile chunk
            ELSE [null |-> FALSE, profile |-> profile])

\* --quality over its range with the other parameters at their defaults, and
\* the other parameters varied at two qualities
WriteParamsSamples ==
    { [yuvFormat |-> "444", writeProfile |-> wp, quality |-> q,
       quantizerMin |-> -1, quantizerMax |-> -1] : wp \in BOOLEAN, q \in 0..100 }
    \cup { [yuvFormat |-> y, writeProfile |-> wp, quality |-> q,
            quantizerMin |-> qq[1], quantizerMax |-> qq[2]] :
              y \in {"444", "420", "INVALID"}, wp \in BOOLEAN, q \in {0, 50},
              qq \in {<<-1, -1>>, <<10, 40>>, <<-1, 40>>} }

WriteEnvSamples ==
    [saveOk : BOOLEAN, canEncode : BOOLEAN, encode : {"ok", "error", "empty"},
     oob : {"trap"}, garbage : {"null", "wild"}]

NoWrite == [ret |-> "none", output |-> "NONE", colr |-> NoColr, encoder |-> NoEncoder,
            made |-> {}, released |-> {}]

\* clFormatReadAVIF on the file
ReadAVIF ==
    /\ io.stage = "file"
    /\ \E dec \in {"ok", "codec", "parse", "frame"},
          overrideProfile \in {NullProfile,
                               clProfileCreate("P709", [type |-> CL_PCT_GAMMA, gamma |-> F32Gamma24],
                                               300, "SRGB", FALSE).profile} :
          \E image \in {clFormatReadAVIF(io.colr, overrideProfile, dec)} :
             io' = [io EXCEPT !.stage = IF image.null THEN "unread" ELSE "image",
                              !.image = image,
                              !.overridden = ~overrideProfile.null]
    /\ UNCHANGED <<lcms, pq, prof, XformVars>>

\* clFormatWriteAVIF on the image read
WriteAVIF ==
    /\ io.stage = "image"
    /\ \E writeParams \in WriteParamsSamples, env \in WriteEnvSamples :
          io' = [io EXCEPT !.stage = "written",
                           !.writeParams = writeParams,
                           !.env = env,
                           !.out = clFormatWriteAVIF(io.image, io.output, writeParams, env)]
    /\ UNCHANGED <<lcms, pq, prof, XformVars>>

InitAvif ==
    /\ C = [ccmmAllowed |-> TRUE]
    /\ ub = CHOOSE u \in UBChoices : TRUE
    /\ pixelCount = 0
    /\ transform = clTransformCreate("bt709", CL_XF_RGBA, 8, "bt709b", CL_XF_RGBA, 8)
    /\ srcPixels = <<>>
    /\ dstPixels = <<>>
    /\ prof = ProfNone
    /\ pq = PQNone
    /\ lcms = LcmsNone
    /\ \E colr \in ColrSamples :
          io = [stage |-> "file", colr |-> colr, image |-> NoImage, overridden |-> FALSE,
                output |-> "OLD",
                writeParams |-> CHOOSE w \in WriteParamsSamples : TRUE,
                env |-> CHOOSE e \in WriteEnvSamples : TRUE,
                out |-> NoWrite]
    /\ pc = "idle"
    /\ taskCount = 0
    /\ useCCMM = FALSE
    /\ loopI = 0
    /\ infos = <<>>
    /\ tasks = <<>>
    /\ heap = [tasks |-> FALSE, infos |-> FALSE]
    /\ runs = 0
    /\ dstAtStart = dstPixels
    /\ prevOut = <<>>
    /\ log = [wr |-> {}, created |-> 0, uaf |-> FALSE, tc |-> 0, prevTc |-> 0]

NextAvif == ReadAVIF \/ WriteAVIF

SpecAvif == InitAvif /\ [][NextAvif]_vars

\* the image came from an nclx colr box of known primaries and of one of the
\* four transfer characteristics the reader maps, and was written with its
\* profile
NclxRoundTrip ==
    /\ io.stage = "written"
    /\ io.colr.format = "nclx" /\ ~io.overridden
    /\ io.colr.nclx.transferCharacteristics \in {"BT2100_HLG", "BT2100_PQ", "GAMMA22", "GAMMA28"}
    /\ io.writeParams.writeProfile
    /\ {"encoder"} \subseteq io.out.made

\* C25: an nclx colr box of known primaries and of transfer characteristic
\* BT.2100 HLG, BT.2100 PQ, gamma 2.2 or gamma 2.8, turned into a profile on
\* read and back on write, gives an nclx box of the same primaries and
\* transfer characteristic; a conversion back that fails gives the packed
\* ICC blob
C25_NclxRoundTrip ==
    /\ NclxRoundTrip =>
          /\ io.out.colr.format = "nclx"
          /\ io.out.colr.nclx.colourPrimaries = io.colr.nclx.colourPrimaries
          /\ io.out.colr.nclx.transferCharacteristics = io.colr.nclx.transferCharacteristics
    /\ (io.stage = "written" /\ io.writeParams.writeProfile /\ {"encoder"} \subseteq io.out.made)
          => (io.out.colr.format \in {"nclx", "ICC"}
              /\ (io.out.colr.format = "ICC") = (clProfileToNclx(io.image.profile, "trap").ret = "false"))

\* the round trip where it works: the two gamma curves
NclxGammaRoundTrip ==
    (NclxRoundTrip /\ io.colr.nclx.transferCharacteristics \in {"GAMMA22", "GAMMA28"}) =>
          /\ io.out.colr.format = "nclx"
          /\ io.out.colr.nclx.colourPrimaries = io.colr.nclx.colourPrimaries
          /\ io.out.colr.nclx.transferCharacteristics = io.colr.nclx.transferCharacteristics

(***************************************************************************)
\* the write met one of its failures: the profile cannot be packed, the YUV
\* format is invalid, no AV1 codec can encode, the encoder fails or returns
\* no data
WriteFailed ==
    \/ ~io.env.saveOk
    \/ io.writeParams.yuvFormat \notin YUVFormats
    \/ ~io.env.canEncode
    \/ io.env.encode # "ok"

\* C29: clFormatWriteAVIF returns true only when the encoded bytes were
\* stored in the output; every failure exit (pack failure, invalid YUV
\* format, no AV1 codec, encoder error, empty output) returns false, leaves
\* the output buffer unchanged and releases only resources that were
\* initialised
C29_WriteExits ==
    (io.stage = "written") =>
        /\ (io.out.ret = "true") => (io.out.output = "AV1")
        /\ WriteFailed =>
              /\ io.out.ret = "false"
              /\ io.out.output = io.output
              /\ io.out.released \subseteq io.out.made

\* the exits taken after the encoder ran behave as stated
WriteExitsAfterEncoder ==
    (io.stage = "written" /\ io.env.saveOk /\ io.writeParams.yuvFormat \in YUVFormats
     /\ io.env.canEncode) =>
        /\ (io.out.ret = "true") = (io.env.encode = "ok")
        /\ (io.out.ret = "true") => (io.out.output = "AV1")
        /\ (io.out.ret = "false") => (io.out.output = io.output)
        /\ io.out.released = io.out.made

\* C30: with both quantizers left at -1 and the quality Q in 0..100 (0 taken
\* as 100), minQuantizer = clamp(64 - Q, 0, 63) and maxQuantizer =
\* clamp(100 - Q, 0, 63): 0 <= min <= max <= 63, Q = 100 gives [0, 0], Q = 1
\* gives [63, 63], min is 63 only at Q = 1, max is 63 for every Q <= 37, and
\* neither quantizer grows when the quality does
C30_Quantizers ==
    (/\ io.stage = "written" /\ "encoder" \in io.out.made /\ io.env.canEncode
     /\ io.writeParams.quantizerMin = -1 /\ io.writeParams.quantizerMax = -1) =>
        LET Q   == IF io.writeParams.quality = 0 THEN 100 ELSE io.writeParams.quality
            min == io.out.encoder.minQuantizer
            max == io.out.encoder.maxQuantizer
        IN /\ min = (IF 64 - Q < 0 THEN 0 ELSE IF 64 - Q > 63 THEN 63 ELSE 64 - Q)
           /\ max = (IF 100 - Q < 0 THEN 0 ELSE IF 100 - Q > 63 THEN 63 ELSE 100 - Q)
           /\ 0 <= min /\ min <= max /\ max <= 63
           /\ (Q = 100) => (min = 0 /\ max = 0)
           /\ (Q = 1) => (min = 63 /\ max = 63)
           /\ (min = 63) => (Q = 1)
           /\ (Q <= 37) => (max = 63)
           /\ \A q \in Q..100 :
                 With(EncoderQuantizers([io.writeParams EXCEPT !.quality = q]), LAMBDA e :
                      e.minQuantizer <= min /\ e.maxQuantizer <= max)

C30_Witness ==
    /\ io.stage = "written" /\ io.env.canEncode /\ io.env.encode = "ok"
    /\ io.out.ret = "true"
    /\ io.writeParams.quantizerMin = -1 /\ io.writeParams.quantizerMax = -1
    /\ io.writeParams.quality = 37
    /\ io.out.encoder = [minQuantizer |-> 27, maxQuantizer |-> 63]

(* clContextGenerate (context_generate.c) as a state machine over io: io.C *)
(* holds the context's arguments, io.env what the file system and the      *)
(* collaborators answer, io.out the outcome.                               *)
(***************************************************************************)
COLORIST_DEFAULT_LUMINANCE == 300

\* clProfileWrite(C, profile, filename): [ret, file]; file is what the file
\* holds afterwards, "ABSENT" when it was never opened.  A failed fopen
\* leaves through return 1
clProfileWrite(profile, env) ==
    IF ~env.fopenOk THEN [ret |-> TRUE, file |-> "ABSENT"]
    ELSE With(clProfilePack(profile, env.saveOk), LAMBDA rawProfile :
           IF ~rawProfile.ok THEN [ret |-> FALSE, file |-> "EMPTY"]
           ELSE IF ~env.fwriteOk THEN [ret |-> FALSE, file |-> "PARTIAL"]
           ELSE [ret |-> TRUE, file |-> rawProfile.ptr])

\* clContextWrite(C, image, filename, format, quality, rate): [ret, file]
clContextWrite(format, env) ==
    With(IF format = "AUTO" THEN env.detect ELSE format, LAMBDA fmt :
        IF fmt = "ERROR" THEN [ret |-> FALSE, file |-> "ABSENT"]
        ELSE IF fmt \in {"JP2", "JPG", "PNG", "WEBP"}
        THEN (IF env.writerOk THEN [ret |-> TRUE, file |-> "IMAGE"]
              ELSE [ret |-> FALSE, file |-> "ABSENT"])
        ELSE \* Unimplemented file writer
             [ret |-> FALSE, file |-> "ABSENT"])

NoGenerate == [status |-> -1, file |-> "ABSENT", wrote |-> "none", profile |-> NullProfile]

\* clContextGenerate(C): [status, file, wrote, profile]; wrote is what
\* clProfileWrite returned ("none" when it was not called), profile the
\* profile generated
clContextGenerate(ctx, env) ==
    With(IF ctx.format = "AUTO" THEN env.detect ELSE ctx.format, LAMBDA outputFileFormat :
      IF outputFileFormat = "ERROR" THEN [NoGenerate EXCEPT !.status = 1]
      ELSE IF outputFileFormat = "ICC" /\ ctx.inputFilename # "NULL"
      THEN [NoGenerate EXCEPT !.status = 1]
      ELSE IF outputFileFormat # "ICC" /\ ctx.inputFilename = "NULL"
      THEN [NoGenerate EXCEPT !.status = 1]
      ELSE With(clProfileCreate(IF ctx.primaries = "NONE" THEN "P709" ELSE ctx.primaries,
                                [type |-> CL_PCT_GAMMA,
                                 gamma |-> IF F32Less(F32Zero, ctx.gamma) THEN ctx.gamma
                                           ELSE F32Gamma24],
                                IF ctx.luminance <= 0 THEN COLORIST_DEFAULT_LUMINANCE
                                ELSE ctx.luminance,
                                IF ctx.description # "NULL" THEN ctx.description ELSE "Generated",
                                FALSE).profile, LAMBDA dstProfile :
        IF ctx.inputFilename # "NULL"
        THEN (IF ~env.parseOk THEN [NoGenerate EXCEPT !.status = 1, !.profile = dstProfile]
              ELSE With(clContextWrite(outputFileFormat, env), LAMBDA w :
                     [status |-> IF w.ret THEN 0 ELSE 1, file |-> w.file, wrote |-> "none",
                      profile |-> dstProfile]))
        ELSE With(clProfileWrite(dstProfile, env), LAMBDA w :
               [status |-> IF w.ret THEN 0 ELSE 1, file |-> w.file,
                wrote |-> IF w.ret THEN "true" ELSE "false", profile |-> dstProfile])))

GenerateArgs ==
    [format : {"AUTO", "ICC", "PNG", "TIFF"}, inputFilename : {"NULL", "#ff0000"},
     primaries : {"NONE", "P2020"}, gamma : {F32Zero, F32Gamma22}, luminance : {0, 100},
     description : {"NULL", "Mine"}]

GenerateEnv ==
    [detect : {"ICC", "PNG", "ERROR"}, fopenOk : BOOLEAN, saveOk : BOOLEAN, fwriteOk : BOOLEAN,
     parseOk : BOOLEAN, writerOk : BOOLEAN]

\* one call of clContextGenerate
Generate ==
    /\ io.stage = "args"
    /\ io' = [io EXCEPT !.stage = "generated", !.out = clContextGenerate(io.C, io.env)]
    /\ UNCHANGED <<lcms, pq, prof, XformVars>>

InitGenerate ==
    /\ C = [ccmmAllowed |-> TRUE]
    /\ ub = CHOOSE u \in UBChoices : TRUE
    /\ pixelCount = 0
    /\ transform = clTransformCreate("bt709", CL_XF_RGBA, 8, "bt709b", CL_XF_RGBA, 8)
    /\ srcPixels = <<>>
    /\ dstPixels = <<>>
    /\ prof = ProfNone
    /\ pq = PQNone
    /\ lcms = LcmsNone
    /\ \E ctx \in GenerateArgs, env \in GenerateEnv :
          io = [stage |-> "args", C |-> ctx, env |-> env, out |-> NoGenerate]
    /\ pc = "idle"
    /\ taskCount = 0
    /\ useCCMM = FALSE
    /\ loopI = 0
    /\ infos = <<>>
    /\ tasks = <<>>
    /\ heap = [tasks |-> FALSE, infos |-> FALSE]
    /\ runs = 0
    /\ dstAtStart = dstPixels
    /\ prevOut = <<>>
    /\ log = [wr |-> {}, created |-> 0, uaf |-> FALSE, tc |-> 0, prevTc |-> 0]

NextGenerate == Generate

SpecGenerate == InitGenerate /\ [][NextGenerate]_vars

\* clContextGenerate got as far as writing an .icc file
WroteIcc == io.stage = "generated" /\ io.out.wrote # "none"

\* C28: clProfileWrite returns true only if the packed profile was written
\* completely to the file; it returns false when the file cannot be opened,
\* the profile cannot be packed or the write fails, and clContextGenerate
\* then returns a non-zero status
C28_WriteFailuresReported ==
    WroteIcc =>
        /\ (io.out.wrote = "true") => (io.out.file = "ICC")
        /\ (~io.env.fopenOk \/ ~io.env.saveOk \/ ~io.env.fwriteOk) =>
              (io.out.wrote = "false" /\ io.out.status # 0)

\* the pack and write failures are reported, and a reported success wrote
\* the file, when the file could be opened
WriteFailuresAfterOpen ==
    (WroteIcc /\ io.env.fopenOk) =>
        /\ (io.out.wrote = "true") => (io.out.file = "ICC" /\ io.out.status = 0)
        /\ (~io.env.saveOk \/ ~io.env.fwriteOk) =>
              (io.out.wrote = "false" /\ io.out.status = 1)

(* The PQ curve on its own: a channel value x is decoded by PQ_EOTF as in  *)
(* the CL_XTF_PQ arm of transformFloatToFloat's source switch, and the     *)
(* result is encoded by PQ_OETF as in the arm of its destination switch.   *)
(***************************************************************************)
PQSteps == 64

\* the samples k/PQSteps inside (0, 1), and 0x1.d3a174p-1 = 0.913341165
PQSamples == { F32Ratio(k, PQSteps) : k \in 1..(PQSteps - 1) } \cup { F32Lit(15323322, -24) }

\* src.x = PQ_EOTF((srcPixel[0] >= 0.0f) ? srcPixel[0] : 0.0f)
PQDecode ==
    /\ pq.stage = "src"
    /\ pq' = [pq EXCEPT !.stage = "linear",
                        !.L = PQ_EOTF(IF F32Less(pq.x, F32Zero) THEN F32Zero ELSE pq.x)]
    /\ UNCHANGED <<io, lcms, prof, XformVars>>

\* dstPixel[0] = PQ_OETF((tmp[0] >= 0.0f) ? tmp[0] : 0.0f)
PQEncode ==
    /\ pq.stage = "linear"
    /\ pq' = [pq EXCEPT !.stage = "encoded",
                        !.N = PQ_OETF(IF F32Less(pq.L, F32Zero) THEN F32Zero ELSE pq.L)]
    /\ UNCHANGED <<io, lcms, prof, XformVars>>

InitPQ ==
    /\ C = [ccmmAllowed |-> TRUE]
    /\ ub = CHOOSE u \in UBChoices : TRUE
    /\ pixelCount = 0
    /\ transform = clTransformCreate("bt709", CL_XF_RGBA, 8, "bt709b", CL_XF_RGBA, 8)
    /\ srcPixels = <<>>
    /\ dstPixels = <<>>
    /\ prof = ProfNone
    /\ \E x \in PQSamples : pq = [PQNone EXCEPT !.stage = "src", !.x = x]
    /\ lcms = LcmsNone
    /\ io = IoNone
    /\ pc = "idle"
    /\ taskCount = 0
    /\ useCCMM = FALSE
    /\ loopI = 0
    /\ infos = <<>>
    /\ tasks = <<>>
    /\ heap = [tasks |-> FALSE, infos |-> FALSE]
    /\ runs = 0
    /\ dstAtStart = <<>>
    /\ prevOut = <<>>
    /\ log = [wr |-> {}, created |-> 0, uaf |-> FALSE, tc |-> 0, prevTc |-> 0]

NextPQ == PQDecode \/ PQEncode

SpecPQ == InitPQ /\ [][NextPQ]_vars

\* |a - b| <= 1/100000 for floats a and b in [2^-11, 2): the difference is d
\* units of 2^e, and 100000 = 3125 * 2^5
Within1e5(a, b) ==
    LET e == IF a.e < b.e THEN a.e ELSE b.e
        d == a.m * 2^(a.e - e) - b.m * 2^(b.e - e)
    IN d = 0 \/ (d > -(2^19) /\ d < 2^19 /\ d * 3125 <= 2^(-e - 5) /\ -d * 3125 <= 2^(-e - 5))

PQConstants ==
    /\ PQ_C1 = F32Ratio(3424, 4096)
    /\ PQ_C2 = F32Mul(F32Ratio(2413, 4096), F32FromInt(32))
    /\ PQ_C3 = F32Mul(F32Ratio(2392, 4096), F32FromInt(32))
    /\ PQ_M1 = F32Div(F32Ratio(2610, 4096), F32FromInt(4))
    /\ PQ_M2 = F32Mul(F32Ratio(2523, 4096), F32FromInt(128))

\* C19: with c1 = 3424/4096, c2 = 2413/4096*32, c3 = 2392/4096*32,
\* m1 = 2610/4096/4 and m2 = 2523/4096*128, PQ_OETF(PQ_EOTF(x)) is within
\* 1e-5 of x for every x in [0, 1] away from the endpoints
C19_PQRoundTrip ==
    /\ PQConstants
    /\ pq.stage = "encoded" => Within1e5(pq.N, pq.x)

====
